---- MODULE Spec2Model ----
(***************************************************************************)
(* State-machine model of the qbx_minigames engines.                       *)
(*                                                                         *)
(* One minigame component is mounted at a time, so the components' common  *)
(* fields (gameState, the CountdownTimer, the delayed completion) are      *)
(* shared variables; the fields that belong to one puzzle keep the names   *)
(* they have in its source file.                                           *)
(*                                                                         *)
(*   SpecCircuit  Circuit Solver session (src/unnamed/part_001)            *)
(*   SpecTurn     the same, the player keeps clicking one piece            *)
(*   SpecPower    the same over grids wired in any way (updatePowerFlow)   *)
(*   SpecCode     Code Cracker session (CodeCracker.svelte)                *)
(*   SpecScore    Code Cracker scoring function checkGuess on its own      *)
(*   SpecCountdown  a CountdownTimer on its own (utils.ts)                 *)
(*   SpecCalls    the methods of a CountdownTimer called in any order      *)
(*   SpecApp      a session of any component under App.svelte: Exit,       *)
(*                Escape, teardown and the posts to the host               *)
(*   SpecAppFair  the same, with the timers firing (liveness)              *)
(*   SpecHost     the Lua host and the App over several sessions           *)
(*   SpecSafe     Safe Cracker session (SafeCracker.svelte)                *)
(*   SpecDial     the same, the pointer angle followed through drag        *)
(*   SpecZones    Safe Cracker zone generation, placement by placement     *)
(*   SpecMemory   Memory Sequence session (MemorySequence.svelte)          *)
(*   SpecThermite Thermite session (Thermite.svelte)                       *)
(*   SpecPattern  Thermite's onMount / generatePattern on small grids      *)
(***************************************************************************)
EXTENDS Integers, Sequences, FiniteSets, TLC

VARIABLES
    minigameType,        \* App.svelte: which component is mounted
    gameState,           \* 'idle' | 'playing' | 'success' | 'failure'
    timerInterval,       \* CountdownTimer.timerInterval: TRUE while the interval is set
    pending,             \* setTimeout callbacks scheduled by handleGameOver, in order
    outbox,              \* 'complete' events dispatched to the App, in order
    \* Circuit Solver
    grid,                \* [Cells -> CircuitPiece]
    sourcePosition,
    destinationPosition,
    \* Code Cracker
    currentAttempt,
    attempts,
    feedback,
    secretCode,
    currentGuess,
    selectedPosition,
    scoreOut,            \* SpecScore: what one call of checkGuess returned and left behind
    \* History (not program state): what the claims need to talk about the past
    rejected,            \* TRUE when the last handler call returned early, changing nothing
    grid0,               \* the grid as initializeGame left it
    clickLog,            \* accepted clicks per cell in this session
    accepted,            \* guesses that passed the all-slots-filled check
    \* The component's config prop (Safe Cracker, Memory Sequence, Thermite)
    config,
    \* CountdownTimer, in ticks of its interval
    elapsed,             \* Date.now() - this.startTime
    duration,            \* this.duration
    timeLeft,            \* the component's timeLeft, set by the update callback
    leaked,              \* intervals still set whose handle no timer holds
    timerLog,            \* SpecCountdown: the callbacks invoked since the last start()
    \* Safe Cracker
    currentRotation,
    rotationCount,
    successZones,
    foundZonesCount,
    isDragging,
    \* Memory Sequence
    sequence,
    playerSequence,
    currentIndex,
    \* Thermite (its `grid` is the variable grid)
    playerGrid,
    targetCells,
    selectedCount,
    incorrectSelections,
    \* App.svelte and the host
    active,              \* App.svelte: a session is open
    component,           \* the component App.svelte created for the session
    sent,                \* the fetch posts to the host, in the order they were made
    calls,               \* SpecCalls: the methods called on the Countdown so far
    appConfig,           \* App.svelte: config, the prop it hands to the component
    appSession,          \* history: the number of the session the App last opened
    stale,               \* completions scheduled by components of earlier sessions
    isAnyMinigameActive, \* host: a minigame is in progress
    minigameCallback,    \* host: the session whose caller's callback is registered
    inbox,               \* startMinigame messages sent by the host, not yet handled
    handled,             \* the number of posts the host has handled
    results,             \* history: the callback invocations the host has made
    \* Safe Cracker, the pointer (SpecDial)
    prevAngle,           \* the angle of the pointer at the last mouse or touch event
    lastDelta            \* history: the delta drag last handed to rotateDial

vars == <<minigameType, gameState, timerInterval, pending, outbox,
          grid, sourcePosition, destinationPosition,
          currentAttempt, attempts, feedback, secretCode, currentGuess,
          selectedPosition, scoreOut, rejected, grid0, clickLog, accepted,
          config, elapsed, duration, timeLeft, leaked, timerLog,
          currentRotation, rotationCount, successZones, foundZonesCount, isDragging,
          sequence, playerSequence, currentIndex,
          playerGrid, targetCells, selectedCount, incorrectSelections,
          active, component, sent, calls, prevAngle, lastDelta,
          appConfig, appSession, stale, isAnyMinigameActive, minigameCallback,
          inbox, handled, results>>

sharedVars  == <<minigameType, gameState, timerInterval, pending, outbox>>
circuitVars == <<grid, sourcePosition, destinationPosition, grid0, clickLog>>
codeVars    == <<currentAttempt, attempts, feedback, secretCode, currentGuess,
                 selectedPosition, accepted>>
clockVars    == <<elapsed, duration, timeLeft, leaked, timerLog>>
pointerVars  == <<prevAngle, lastDelta>>
safeVars     == <<currentRotation, rotationCount, successZones, foundZonesCount,
                  isDragging, pointerVars>>
memoryVars   == <<sequence, playerSequence, currentIndex>>
thermiteVars == <<playerGrid, targetCells, selectedCount, incorrectSelections>>
hostVars     == <<appSession, stale, isAnyMinigameActive, minigameCallback, inbox,
                  handled, results>>
appVars      == <<active, component, sent, calls, appConfig, hostVars>>
\* what the Circuit Solver and Code Cracker sessions never touch
laterVars    == <<config, clockVars, safeVars, memoryVars, thermiteVars, appVars>>

\* The host once StartMinigame has sent the message of its first session and
\* the App has handled it (no session at all where nothing is mounted)
HostOpen ==
    /\ appSession = (IF active THEN 1 ELSE 0)
    /\ stale = <<>>
    /\ isAnyMinigameActive = active
    /\ minigameCallback = (IF active THEN 1 ELSE 0)
    /\ inbox = <<>>
    /\ handled = 0
    /\ results = <<>>

\* App.svelte once the startMinigame message has been handled: the session
\* is open, the component of the requested type exists, nothing was posted.
SessionOpen ==
    /\ active = (minigameType # "none")
    /\ component = minigameType
    /\ sent = <<>>
    /\ calls = <<>>
    /\ appConfig = config
    /\ HostOpen

Null == "null"                    \* an empty slot of a guess
NullPiece == [type |-> "null"]    \* a grid cell createGrid has filled with null
NoScore == [called |-> FALSE]     \* scoreOut before checkGuess has been called

(***************************************************************************)
(* Bounds of the exploration and the configuration of the sessions.        *)
(***************************************************************************)
\* config.gridSize of the easy Circuit Solver tier
gridSize == 3
\* accepted clicks explored per Circuit Solver session
MaxClicks == 3
\* clicks explored on the one piece the player keeps clicking in SpecTurn
MaxTurns == 4
\* config.codeLength and config.attempts of the explored Code Cracker sessions
ConfigCodeLength == 2
ConfigAttempts == 2
\* config.codeLength of the easy Code Cracker tier (SpecScore)
EasyCodeLength == 4

(***************************************************************************)
(* Circuit Solver                                                          *)
(***************************************************************************)
Directions == {"top", "right", "bottom", "left"}
Rotations  == <<0, 90, 180, 270>>
Cells      == (0 .. gridSize - 1) \X (0 .. gridSize - 1)

pieceDefs ==
    [ straight    |-> {"top", "bottom"},
      corner      |-> {"top", "right"},
      threeway    |-> {"top", "right", "bottom"},
      fourway     |-> {"top", "right", "bottom", "left"},
      empty       |-> {},
      source      |-> {"right"},
      destination |-> {"left"} ]

\* the list fillGrid draws from
pieceTypes == <<"straight", "corner", "threeway", "fourway", "empty">>

\* One pass of the loop body of rotateConnections:
\*   temp = top; top = left; left = bottom; bottom = right; right = temp
RotateStep(c) ==
    {d \in Directions :
        \/ d = "top"    /\ "left"   \in c
        \/ d = "left"   /\ "bottom" \in c
        \/ d = "bottom" /\ "right"  \in c
        \/ d = "right"  /\ "top"    \in c}

RECURSIVE RotateTimes(_, _)
RotateTimes(c, n) == IF n <= 0 THEN c ELSE RotateTimes(RotateStep(c), n - 1)

\* for (let i = 0; i < rotation / 90; i++) ...
rotateConnections(connections, rotation) ==
    RotateTimes(connections, rotation \div 90)

createPiece(type, rotation) ==
    [ type        |-> type,
      rotation    |-> rotation,
      connections |-> rotateConnections(pieceDefs[type], rotation),
      powered     |-> (type = "source"),
      fixed       |-> (type = "source" \/ type = "destination") ]

\* getRandomInt(min, max) for the draw d of Math.random; every value of
\* min..max is the image of some draw.
getRandomInt(min, max, d) == min + (d % (max - min + 1))

\* createGrid(size, size, null)
createGrid(default) == [c \in Cells |-> default]

\* placeSourceAndDestination with the destination one line further than the
\* source, so that the two share neither a row nor a column
placeSourceAndDestinationOffLine(size, isHorizontal, d) ==
    LET g0 == createGrid(NullPiece) IN
    IF isHorizontal
    THEN LET row   == getRandomInt(0, size - 1, d)
             other == (row + 1) % size
         IN  [ sourcePosition      |-> <<row, 0>>,
               destinationPosition |-> <<other, size - 1>>,
               grid |-> [g0 EXCEPT ![<<row, 0>>] = createPiece("source", 0),
                                   ![<<other, size - 1>>] = createPiece("destination", 0)] ]
    ELSE LET col   == getRandomInt(0, size - 1, d)
             other == (col + 1) % size
         IN  [ sourcePosition      |-> <<0, col>>,
               destinationPosition |-> <<size - 1, other>>,
               grid |-> [g0 EXCEPT ![<<0, col>>] = createPiece("source", 90),
                                   ![<<size - 1, other>>] = createPiece("destination", 270)] ]

\* placeSourceAndDestination: the grid and the two positions it leaves.
placeSourceAndDestination(size, isHorizontal, d) ==
    LET g0 == createGrid(NullPiece) IN
    IF isHorizontal
    THEN LET row == getRandomInt(0, size - 1, d) IN
         [ sourcePosition      |-> <<row, 0>>,
           destinationPosition |-> <<row, size - 1>>,
           grid |-> [g0 EXCEPT ![<<row, 0>>] = createPiece("source", 0),
                               ![<<row, size - 1>>] = createPiece("destination", 0)] ]
    ELSE LET col == getRandomInt(0, size - 1, d) IN
         [ sourcePosition      |-> <<0, col>>,
           destinationPosition |-> <<size - 1, col>>,
           grid |-> [g0 EXCEPT ![<<0, col>>] = createPiece("source", 90),
                               ![<<size - 1, col>>] = createPiece("destination", 270)] ]

\* The moves createValidPath collects at `current`, in the order it pushes them.
TowardMoves(current, target, visited) ==
    LET r == current[1]
        c == current[2]
    IN  (IF r < target[1] /\ <<r + 1, c>> \notin visited
            THEN <<[cell |-> <<r + 1, c>>, dir |-> "down"]>> ELSE <<>>)
     \o (IF r > target[1] /\ <<r - 1, c>> \notin visited
            THEN <<[cell |-> <<r - 1, c>>, dir |-> "up"]>> ELSE <<>>)
     \o (IF c < target[2] /\ <<r, c + 1>> \notin visited
            THEN <<[cell |-> <<r, c + 1>>, dir |-> "right"]>> ELSE <<>>)
     \o (IF c > target[2] /\ <<r, c - 1>> \notin visited
            THEN <<[cell |-> <<r, c - 1>>, dir |-> "left"]>> ELSE <<>>)

AnyMoves(current, visited) ==
    LET r == current[1]
        c == current[2]
    IN  (IF r < gridSize - 1 /\ <<r + 1, c>> \notin visited
            THEN <<[cell |-> <<r + 1, c>>, dir |-> "down"]>> ELSE <<>>)
     \o (IF r > 0 /\ <<r - 1, c>> \notin visited
            THEN <<[cell |-> <<r - 1, c>>, dir |-> "up"]>> ELSE <<>>)
     \o (IF c < gridSize - 1 /\ <<r, c + 1>> \notin visited
            THEN <<[cell |-> <<r, c + 1>>, dir |-> "right"]>> ELSE <<>>)
     \o (IF c > 0 /\ <<r, c - 1>> \notin visited
            THEN <<[cell |-> <<r, c - 1>>, dir |-> "left"]>> ELSE <<>>)

\* The piece createValidPath writes at the cell it leaves.
PathPiece(dir) ==
    IF dir \in {"right", "left"} THEN createPiece("straight", 90)
                                 ELSE createPiece("straight", 0)

\* The while loop of createValidPath; d is the draw used at every step.
RECURSIVE PathLoop(_, _, _, _, _)
PathLoop(g, current, target, visited, d) ==
    IF current = target THEN g
    ELSE LET toward == TowardMoves(current, target, visited)
             moves  == IF Len(toward) = 0 THEN AnyMoves(current, visited) ELSE toward
         IN  IF Len(moves) = 0 THEN g
             ELSE LET move == moves[1 + getRandomInt(0, Len(moves) - 1, d)]
                      g1 == IF g[current] = NullPiece \/ ~g[current].fixed
                               THEN [g EXCEPT ![current] = PathPiece(move.dir)]
                               ELSE g
                  IN  PathLoop(g1, move.cell, target, visited \cup {move.cell}, d)

createValidPath(g, src, dst, d) == PathLoop(g, src, dst, {src}, d)

\* The control flow of the while loop of createValidPath: how many passes it
\* makes, whether a pass takes the fallback moves, whether it leaves by the
\* break, and the cell it ends on.
RECURSIVE PathWalk(_, _, _, _, _)
PathWalk(current, target, visited, d, walk) ==
    IF current = target THEN [walk EXCEPT !.end = current]
    ELSE LET toward == TowardMoves(current, target, visited)
             moves  == IF Len(toward) = 0 THEN AnyMoves(current, visited) ELSE toward
             walk1  == [walk EXCEPT !.fallback = @ \/ Len(toward) = 0]
         IN  IF Len(moves) = 0 THEN [walk1 EXCEPT !.break = TRUE, !.end = current]
             ELSE LET move == moves[1 + getRandomInt(0, Len(moves) - 1, d)] IN
                  PathWalk(move.cell, target, visited \cup {move.cell}, d,
                           [walk1 EXCEPT !.steps = @ + 1])

\* fillGrid: the path, then a random piece in every cell still null.
\* fillDraw[c] is the draw made for cell c.
fillGrid(g, src, dst, pathDraw, fillDraw) ==
    LET p == createValidPath(g, src, dst, pathDraw) IN
    [c \in Cells |->
        IF p[c] = NullPiece
        THEN createPiece(pieceTypes[1 + getRandomInt(0, Len(pieceTypes) - 1, fillDraw[c])], 0)
        ELSE p[c]]

\* randomizeRotations; rotDraw[c] is the draw made for cell c.
randomizeRotations(g, rotDraw) ==
    [c \in Cells |->
        IF g[c] # NullPiece /\ ~g[c].fixed
        THEN LET randomRotation == Rotations[1 + getRandomInt(0, 3, rotDraw[c])] IN
             [g[c] EXCEPT !.rotation = randomRotation,
                          !.connections = rotateConnections(pieceDefs[g[c].type], randomRotation)]
        ELSE g[c]]

\* initializeGame for one outcome of its random draws.
initializeGame(isHorizontal, posDraw, pathDraw, fillDraw, rotDraw) ==
    LET placed == placeSourceAndDestination(gridSize, isHorizontal, posDraw)
        filled == fillGrid(placed.grid, placed.sourcePosition,
                           placed.destinationPosition, pathDraw, fillDraw)
    IN  [ sourcePosition      |-> placed.sourcePosition,
          destinationPosition |-> placed.destinationPosition,
          grid                |-> randomizeRotations(filled, rotDraw) ]

\* The neighbour propagatePower looks at in direction d, with the side of it
\* that faces back, or <<>> when the edge of the grid is in the way.
Facing(row, col, d) ==
    CASE d = "top"    -> IF row > 0            THEN <<<<row - 1, col>>, "bottom">> ELSE <<>>
      [] d = "right"  -> IF col < gridSize - 1 THEN <<<<row, col + 1>>, "left">>   ELSE <<>>
      [] d = "bottom" -> IF row < gridSize - 1 THEN <<<<row + 1, col>>, "top">>    ELSE <<>>
      [] d = "left"   -> IF col > 0            THEN <<<<row, col - 1>>, "right">>  ELSE <<>>

\* propagatePower(row, col): the recursive flood fill, directions tried in the
\* order top, right, bottom, left; the grid it leaves.
RECURSIVE propagatePower(_, _, _)
\* Mutant of PropagateInto: the neighbour's own connection is not looked at.
PropagateIntoOneSided(g, row, col, d) ==
    LET piece == g[<<row, col>>]
        f     == Facing(row, col, d)
    IN  IF d \in piece.connections /\ f # <<>>
        THEN LET n == f[1] IN
             IF g[n] # NullPiece /\ ~g[n].powered
             THEN propagatePower([g EXCEPT ![n].powered = TRUE], n[1], n[2])
             ELSE g
        ELSE g

PropagateInto(g, row, col, d) ==
    LET piece == g[<<row, col>>]
        f     == Facing(row, col, d)
    IN  IF d \in piece.connections /\ f # <<>>
        THEN LET n == f[1] IN
             IF g[n] # NullPiece /\ f[2] \in g[n].connections /\ ~g[n].powered
             THEN propagatePower([g EXCEPT ![n].powered = TRUE], n[1], n[2])
             ELSE g
        ELSE g

propagatePower(g, row, col) ==
    LET piece == g[<<row, col>>] IN
    IF piece = NullPiece \/ ~piece.powered THEN g
    ELSE LET g1 == PropagateInto(g,  row, col, "top")
             g2 == PropagateInto(g1, row, col, "right")
             g3 == PropagateInto(g2, row, col, "bottom")
         IN  PropagateInto(g3, row, col, "left")

\* updatePowerFlow: reset every flag but the source's, then flood from the source.
updatePowerFlow(g, src) ==
    LET reset == [c \in Cells |->
                    IF g[c] # NullPiece /\ g[c].type # "source"
                    THEN [g[c] EXCEPT !.powered = FALSE] ELSE g[c]]
    IN  propagatePower(reset, src[1], src[2])

\* Mutant of RotatePiece: the piece's current connections are rotated by the
\* new absolute rotation, instead of the base connections of its type.
RotatePieceFromCurrent(piece) ==
    LET rotation == (piece.rotation + 90) % 360 IN
    [piece EXCEPT !.rotation = rotation,
                  !.connections = rotateConnections(piece.connections, rotation)]

\* The rotation of handlePieceClick turning the piece the other way
RotatePieceCounter(piece) ==
    LET rotation == (piece.rotation + 270) % 360 IN
    [piece EXCEPT !.rotation = rotation,
                  !.connections = rotateConnections(pieceDefs[piece.type], rotation)]

\* The two assignments of handlePieceClick that rotate the piece.
RotatePiece(piece) ==
    LET rotation == (piece.rotation + 90) % 360 IN
    [piece EXCEPT !.rotation = rotation,
                  !.connections = rotateConnections(pieceDefs[piece.type], rotation)]

\* Mutant of checkWinCondition: row and column swapped in the lookup.
checkWinConditionTransposed(g, dst) == g[<<dst[2], dst[1]>>].powered

\* checkWinCondition: does it call handleGameOver(true)?
checkWinCondition(g, dst) == g[dst].powered

(***************************************************************************)
(* Shared: CountdownTimer, handleGameOver, the delayed dispatch            *)
(***************************************************************************)
\* handleGameOver(success): timer.stop(), the terminal state, and the
\* setTimeout that will dispatch 'complete'.
handleGameOver(success) ==
    /\ timerInterval' = FALSE
    /\ gameState' = IF success THEN "success" ELSE "failure"
    /\ pending' = Append(pending, [success |-> success])

Sum(f) ==
    LET RECURSIVE S(_)
        S(D) == IF D = {} THEN 0
                ELSE LET x == CHOOSE y \in D : TRUE IN f[x] + S(D \ {x})
    IN  S(DOMAIN f)

\* handlePieceClick(row, col)
handlePieceClick(row, col) ==
    LET cell  == <<row, col>>
        piece == grid[cell]
    IN
    /\ rejected' = (gameState # "playing" \/ piece = NullPiece \/ piece.fixed)
    /\ IF gameState # "playing" \/ piece = NullPiece \/ piece.fixed
       THEN UNCHANGED <<sharedVars, circuitVars>>
       ELSE LET flowed == updatePowerFlow([grid EXCEPT ![cell] = RotatePiece(piece)],
                                          sourcePosition)
            IN  /\ grid' = flowed
                /\ clickLog' = [clickLog EXCEPT ![cell] = @ + 1]
                /\ IF checkWinCondition(flowed, destinationPosition)
                   THEN handleGameOver(TRUE)
                   ELSE UNCHANGED <<gameState, timerInterval, pending>>
                /\ UNCHANGED <<minigameType, outbox, sourcePosition,
                               destinationPosition, grid0>>
    /\ UNCHANGED <<codeVars, scoreOut, laterVars>>

\* The interval callback of CountdownTimer.start at the tick where remaining
\* has reached 0: this.stop(), then onComplete, which is handleGameOver(false).
TimerExpire ==
    /\ timerInterval
    /\ handleGameOver(FALSE)
    /\ rejected' = FALSE
    /\ UNCHANGED <<minigameType, outbox, circuitVars, codeVars, scoreOut, laterVars>>

\* What each component puts in the data of its 'complete' event.
\* (The Circuit Solver and Code Cracker sessions do not observe the ticks of
\* their Countdown, so their timeRemaining is left out; it is the only field
\* of the Circuit Solver's data.)
CompletionDataOf(type) ==
    IF type = "code_cracker"
    THEN [attempts |-> currentAttempt + 1, secretCode |-> secretCode]
    ELSE IF type = "safe_cracker"
    THEN [timeRemaining |-> timeLeft, zonesFound |-> foundZonesCount,
          totalZones |-> config.zones]
    ELSE IF type = "memory_sequence"
    THEN [timeRemaining |-> timeLeft, sequenceLength |-> Len(sequence),
          playerSequence |-> playerSequence]
    ELSE IF type = "thermite"
    THEN [timeRemaining |-> timeLeft, correctSelections |-> selectedCount,
          incorrectSelections |-> incorrectSelections,
          totalTargets |-> Len(targetCells)]
    ELSE <<>>

CompletionData == CompletionDataOf(minigameType)

\* The setTimeout callback of handleGameOver: dispatch('complete', ...).
DispatchComplete ==
    /\ pending # <<>>
    /\ outbox' = Append(outbox, [success |-> Head(pending).success,
                                 data    |-> CompletionData])
    /\ pending' = Tail(pending)
    /\ rejected' = FALSE
    /\ UNCHANGED <<minigameType, gameState, timerInterval, circuitVars,
                   codeVars, scoreOut, laterVars>>

(***************************************************************************)
(* Circuit Solver session                                                  *)
(***************************************************************************)
\* The outcomes of the generator's random draws that are explored: one draw
\* per call site, i.e. every cell gets the same fill draw and the same
\* rotation draw.
PosDraws  == 0 .. gridSize - 1
PathDraws == 0 .. 1
FillDraws == {[c \in Cells |-> k] : k \in 0 .. Len(pieceTypes) - 1}
RotDraws  == {[c \in Cells |-> k] : k \in 0 .. 3}

\* The fields of the components that are not mounted, and of a CountdownTimer
\* whose ticks the session does not observe.
NoConfig == [difficulty |-> "none"]

ClockIdle ==
    /\ elapsed = 0
    /\ duration = 0
    /\ timeLeft = 0
    /\ leaked = 0
    /\ timerLog = <<>>

SafeIdle ==
    /\ currentRotation = 0
    /\ rotationCount = 0
    /\ successZones = <<>>
    /\ foundZonesCount = 0
    /\ isDragging = FALSE
    /\ prevAngle = 0
    /\ lastDelta = 0

MemoryIdle ==
    /\ sequence = <<>>
    /\ playerSequence = <<>>
    /\ currentIndex = 0

ThermiteIdle ==
    /\ playerGrid = <<>>
    /\ targetCells = <<>>
    /\ selectedCount = 0
    /\ incorrectSelections = 0

CodeIdle ==
    /\ currentAttempt = 0
    /\ attempts = <<>>
    /\ feedback = <<>>
    /\ secretCode = <<>>
    /\ currentGuess = <<>>
    /\ selectedPosition = 0
    /\ accepted = 0
    /\ scoreOut = NoScore

\* onMount of the Circuit Solver once initializeGame has left `made`:
\* new CountdownTimer(...), then startGame().
MountCircuit(made) ==
    /\ minigameType = "circuit_solver"
    /\ grid = made.grid
    /\ grid0 = made.grid
    /\ sourcePosition = made.sourcePosition
    /\ destinationPosition = made.destinationPosition
    /\ clickLog = [c \in Cells |-> 0]
    /\ gameState = "playing"
    /\ timerInterval = TRUE
    /\ pending = <<>>
    /\ outbox = <<>>
    /\ rejected = FALSE
    /\ CodeIdle
    /\ config = NoConfig /\ ClockIdle /\ SafeIdle /\ MemoryIdle /\ ThermiteIdle /\ SessionOpen

InitCircuit ==
    \E isHorizontal \in BOOLEAN, posDraw \in PosDraws, pathDraw \in PathDraws,
       fillDraw \in FillDraws, rotDraw \in RotDraws :
        MountCircuit(initializeGame(isHorizontal, posDraw, pathDraw, fillDraw, rotDraw))

\* Grids for checking updatePowerFlow as a function of the grid: the two
\* fixed pieces where placeSourceAndDestination puts them and one piece of
\* any type and rotation in every other cell, the cells of the path included
\* (initializeGame only ever leaves straight pieces there).
AnyWiring(isHorizontal, posDraw, type, rotation) ==
    LET placed == placeSourceAndDestination(gridSize, isHorizontal, posDraw) IN
    [placed EXCEPT !.grid = [c \in Cells |->
        IF placed.grid[c] = NullPiece THEN createPiece(type, rotation)
                                      ELSE placed.grid[c]]]

InitPower ==
    \/ InitCircuit
    \/ \E isHorizontal \in BOOLEAN, posDraw \in PosDraws,
          k \in 1 .. Len(pieceTypes), r \in 1 .. Len(Rotations) :
          MountCircuit(AnyWiring(isHorizontal, posDraw, pieceTypes[k], Rotations[r]))

Click ==
    \E cell \in Cells :
        /\ Sum(clickLog) < MaxClicks
        /\ handlePieceClick(cell[1], cell[2])

NextCircuit ==
    \/ Click
    \/ TimerExpire
    \/ DispatchComplete

SpecCircuit == InitCircuit /\ [][NextCircuit]_vars

\* The session in which the player keeps clicking one and the same piece.
TurnClick ==
    \E cell \in Cells :
        /\ \A other \in Cells \ {cell} : clickLog[other] = 0
        /\ clickLog[cell] < MaxTurns
        /\ handlePieceClick(cell[1], cell[2])

NextTurn ==
    \/ TurnClick
    \/ TimerExpire
    \/ DispatchComplete

SpecTurn == InitCircuit /\ [][NextTurn]_vars

\* The same session over the wider family of grids.
SpecPower == InitPower /\ [][NextCircuit]_vars

(***************************************************************************)
(* Code Cracker                                                            *)
(***************************************************************************)
colorOptions ==
    << "#FF5252", "#4CAF50", "#2196F3", "#FFC107",
       "#9C27B0", "#FF9800", "#00BCD4", "#607D8B" >>

Red   == colorOptions[1]
Green == colorOptions[2]
Blue  == colorOptions[3]

\* The draws explored for each slot of the secret, the colours the player
\* picks in the explored sessions, and the colours of the guesses and codes
\* that SpecScore scores.
SecretDraws   == {0, 1}
SessionColors == {Red, Green}
ScoreColors   == {Red, Green, Blue}

\* Array(n).fill(null)
NullRow(n) == [i \in 1 .. n |-> Null]

\* generateSecretCode for the draws d[1], ..., d[codeLength].
generateSecretCode(codeLength, d) ==
    [i \in 1 .. codeLength |->
        colorOptions[1 + getRandomInt(0, Len(colorOptions) - 1, d[i])]]

\* First loop of checkGuess on the two arrays it works on, from index i on.
RECURSIVE CorrectPass(_, _, _)
CorrectPass(st, i, codeLength) ==
    IF i > codeLength THEN st
    ELSE IF st.guessCopy[i] = st.codeCopy[i]
         THEN CorrectPass([st EXCEPT !.correct = @ + 1,
                                     !.guessCopy[i] = Null,
                                     !.codeCopy[i] = Null], i + 1, codeLength)
         ELSE CorrectPass(st, i + 1, codeLength)

\* codeCopy.findIndex(c => c === x), 1-based, 0 for "not found".
FindIndex(codeCopy, x) ==
    LET hits == {j \in 1 .. Len(codeCopy) : codeCopy[j] = x} IN
    IF hits = {} THEN 0 ELSE CHOOSE j \in hits : \A k \in hits : j <= k

\* Second loop of checkGuess.
RECURSIVE MisplacedPass(_, _, _)
MisplacedPass(st, i, codeLength) ==
    IF i > codeLength THEN st
    ELSE IF st.guessCopy[i] # Null
         THEN LET index == FindIndex(st.codeCopy, st.guessCopy[i]) IN
              IF index # 0
              THEN MisplacedPass([st EXCEPT !.misplaced = @ + 1,
                                            !.codeCopy[index] = Null], i + 1, codeLength)
              ELSE MisplacedPass(st, i + 1, codeLength)
         ELSE MisplacedPass(st, i + 1, codeLength)

\* Mutant of checkGuess: a matched slot of the code is not taken out, so it
\* can answer for several slots of the guess.
checkGuessNoRemoval(guess, code, codeLength) ==
    LET start == [correct |-> 0, misplaced |-> 0, guessCopy |-> guess, codeCopy |-> code]
        first == CorrectPass(start, 1, codeLength)
        hits  == {i \in 1 .. codeLength :
                    /\ first.guessCopy[i] # Null
                    /\ FindIndex(first.codeCopy, first.guessCopy[i]) # 0}
    IN  [correct |-> first.correct, misplaced |-> Cardinality(hits),
         guess |-> guess, code |-> code]

\* checkGuess(guess, code): the { correct, misplaced } it returns, and the
\* caller's two arrays as the call leaves them (it works on copies).
checkGuess(guess, code, codeLength) ==
    LET start == [correct |-> 0, misplaced |-> 0, guessCopy |-> guess, codeCopy |-> code]
        done  == MisplacedPass(CorrectPass(start, 1, codeLength), 1, codeLength)
    IN  [correct |-> done.correct, misplaced |-> done.misplaced,
         guess |-> guess, code |-> code]

\* Mutant of includesNull: only the first slot is looked at.
includesNullFirstSlot(guess) == guess[1] = Null

\* currentGuess.includes(null)
includesNull(guess) == \E i \in 1 .. Len(guess) : guess[i] = Null

\* Mutant of OutOfAttempts: off by one.
OutOfAttemptsLate(attempt, allowed) == attempt >= allowed

\* if (currentAttempt >= config.attempts - 1)
OutOfAttempts(attempt, allowed) == attempt >= allowed - 1

\* if (result.correct === config.codeLength)
IsWin(result, codeLength) == result.correct = codeLength

\* selectPosition(position) without the test of gameState
selectPositionAnyState(position) ==
    /\ rejected' = FALSE
    /\ selectedPosition' = position
    /\ UNCHANGED <<sharedVars, circuitVars, scoreOut, currentAttempt, attempts,
                   feedback, secretCode, currentGuess, accepted, laterVars>>

\* selectPosition(position)
selectPosition(position) ==
    /\ rejected' = (gameState # "playing")
    /\ IF gameState # "playing"
       THEN UNCHANGED selectedPosition
       ELSE selectedPosition' = position
    /\ UNCHANGED <<sharedVars, circuitVars, scoreOut, currentAttempt, attempts,
                   feedback, secretCode, currentGuess, accepted, laterVars>>

\* selectColor(color)
selectColor(color) ==
    /\ rejected' = (gameState # "playing")
    /\ IF gameState # "playing"
       THEN UNCHANGED <<currentGuess, selectedPosition>>
       ELSE /\ currentGuess' = [currentGuess EXCEPT ![selectedPosition + 1] = color]
            /\ selectedPosition' = IF selectedPosition < ConfigCodeLength - 1
                                   THEN selectedPosition + 1
                                   ELSE selectedPosition
    /\ UNCHANGED <<sharedVars, circuitVars, scoreOut, currentAttempt, attempts,
                   feedback, secretCode, accepted, laterVars>>

\* submitGuess()
submitGuess ==
    IF gameState # "playing" \/ includesNull(currentGuess)
    THEN /\ rejected' = TRUE
         /\ UNCHANGED <<sharedVars, circuitVars, codeVars, scoreOut, laterVars>>
    ELSE LET result == checkGuess(currentGuess, secretCode, ConfigCodeLength) IN
         /\ rejected' = FALSE
         /\ accepted' = accepted + 1
         /\ attempts' = [attempts EXCEPT ![currentAttempt + 1] = currentGuess]
         /\ feedback' = [feedback EXCEPT ![currentAttempt + 1] =
                            [correct |-> result.correct, misplaced |-> result.misplaced]]
         /\ secretCode' = result.code
         /\ IF IsWin(result, ConfigCodeLength)
            THEN /\ handleGameOver(TRUE)
                 /\ currentGuess' = result.guess
                 /\ UNCHANGED <<currentAttempt, selectedPosition>>
            ELSE IF OutOfAttempts(currentAttempt, ConfigAttempts)
            THEN /\ handleGameOver(FALSE)
                 /\ currentGuess' = result.guess
                 /\ UNCHANGED <<currentAttempt, selectedPosition>>
            ELSE /\ currentAttempt' = currentAttempt + 1
                 /\ currentGuess' = NullRow(ConfigCodeLength)
                 /\ selectedPosition' = 0
                 /\ UNCHANGED <<gameState, timerInterval, pending>>
         /\ UNCHANGED <<minigameType, outbox, circuitVars, scoreOut, laterVars>>

CircuitIdle ==
    /\ grid = <<>>
    /\ grid0 = <<>>
    /\ sourcePosition = <<>>
    /\ destinationPosition = <<>>
    /\ clickLog = <<>>

\* onMount of the Code Cracker: generateSecretCode(), resetGame(),
\* new CountdownTimer(...), startGame().
InitCode ==
    /\ minigameType = "code_cracker"
    /\ \E d \in [1 .. ConfigCodeLength -> SecretDraws] :
          secretCode = generateSecretCode(ConfigCodeLength, d)
    /\ attempts = [k \in 1 .. ConfigAttempts |-> NullRow(ConfigCodeLength)]
    /\ feedback = [k \in 1 .. ConfigAttempts |-> [correct |-> 0, misplaced |-> 0]]
    /\ currentGuess = NullRow(ConfigCodeLength)
    /\ currentAttempt = 0
    /\ selectedPosition = 0
    /\ accepted = 0
    /\ scoreOut = NoScore
    /\ gameState = "playing"
    /\ timerInterval = TRUE
    /\ pending = <<>>
    /\ outbox = <<>>
    /\ rejected = FALSE
    /\ CircuitIdle
    /\ config = NoConfig /\ ClockIdle /\ SafeIdle /\ MemoryIdle /\ ThermiteIdle /\ SessionOpen

SelectPosition == \E position \in 0 .. ConfigCodeLength - 1 : selectPosition(position)
SelectColor    == \E color \in SessionColors : selectColor(color)
SubmitGuess    == submitGuess

NextCode ==
    \/ SelectPosition
    \/ SelectColor
    \/ SubmitGuess
    \/ TimerExpire
    \/ DispatchComplete

SpecCode == InitCode /\ [][NextCode]_vars

(***************************************************************************)
(* checkGuess on its own: every guess and code of the easy tier's length   *)
(***************************************************************************)
InitScore ==
    /\ minigameType = "code_cracker"
    /\ secretCode \in [1 .. EasyCodeLength -> ScoreColors]
    /\ currentGuess \in [1 .. EasyCodeLength -> ScoreColors]
    /\ attempts = <<>>
    /\ feedback = <<>>
    /\ currentAttempt = 0
    /\ selectedPosition = 0
    /\ accepted = 0
    /\ scoreOut = NoScore
    /\ gameState = "playing"
    /\ timerInterval = FALSE
    /\ pending = <<>>
    /\ outbox = <<>>
    /\ rejected = FALSE
    /\ CircuitIdle
    /\ config = NoConfig /\ ClockIdle /\ SafeIdle /\ MemoryIdle /\ ThermiteIdle /\ SessionOpen

\* One call checkGuess(currentGuess, secretCode).
Score ==
    /\ scoreOut = NoScore
    /\ LET result == checkGuess(currentGuess, secretCode, EasyCodeLength) IN
       /\ scoreOut' = [correct |-> result.correct, misplaced |-> result.misplaced,
                       guess |-> currentGuess, code |-> secretCode]
       /\ currentGuess' = result.guess
       /\ secretCode' = result.code
    /\ UNCHANGED <<sharedVars, circuitVars, currentAttempt, attempts, feedback,
                   selectedPosition, accepted, rejected, laterVars>>

NextScore == Score

SpecScore == InitScore /\ [][NextScore]_vars

(***************************************************************************)
(* Circuit Solver: properties                                              *)
(***************************************************************************)
Opposite(d) ==
    CASE d = "top" -> "bottom" [] d = "bottom" -> "top"
      [] d = "left" -> "right" [] d = "right" -> "left"

\* The cell next to `cell` in direction d (possibly outside the grid).
Toward(cell, d) ==
    CASE d = "top"    -> <<cell[1] - 1, cell[2]>>
      [] d = "bottom" -> <<cell[1] + 1, cell[2]>>
      [] d = "left"   -> <<cell[1], cell[2] - 1>>
      [] d = "right"  -> <<cell[1], cell[2] + 1>>

\* a and b share an edge across which both expose a connection.
Linked(g, a, b) ==
    \E d \in Directions :
        /\ b = Toward(a, d)
        /\ d \in g[a].connections
        /\ Opposite(d) \in g[b].connections

\* The least set holding the source and closed under Linked.
RECURSIVE Closure(_, _)
Closure(g, S) ==
    LET T == S \cup {b \in Cells : \E a \in S : Linked(g, a, b)} IN
    IF T = S THEN S ELSE Closure(g, T)

Reach(g) == Closure(g, {sourcePosition})

PoweredCells(g) == {c \in Cells : g[c].powered}
NonFixedCells == {c \in Cells : ~grid[c].fixed}
Fresh == gameState = "playing" /\ Sum(clickLog) = 0
IsHorizontalLayout == sourcePosition[2] = 0 /\ destinationPosition[2] = gridSize - 1
                      /\ sourcePosition[1] = destinationPosition[1]

\* The grid with the non-fixed pieces turned to the rotations rot gives them.
Turned(g, rot) ==
    [c \in Cells |->
        IF g[c].fixed THEN g[c]
        ELSE [g[c] EXCEPT !.rotation = rot[c],
                          !.connections = rotateConnections(pieceDefs[g[c].type], rot[c])]]

\* C1. Every generated puzzle is solvable: some setting of the non-fixed
\* pieces' rotations (all of which clicks can reach) links the destination to
\* the source, so some finite click sequence ends in success.
C1_EveryPuzzleSolvable ==
    Fresh => \E rot \in [NonFixedCells -> {0, 90, 180, 270}] :
                 destinationPosition \in Reach(Turned(grid, rot))

\* C2. Source and destination each expose exactly one connection, and it
\* points to a cell of the grid: horizontal layout source right / destination
\* left, vertical layout source bottom / destination top.
C2_EndpointsPointIntoGrid ==
    LET s == grid[sourcePosition].connections
        t == grid[destinationPosition].connections
    IN  /\ Cardinality(s) = 1 /\ Cardinality(t) = 1
        /\ \A d \in s : Toward(sourcePosition, d) \in Cells
        /\ \A d \in t : Toward(destinationPosition, d) \in Cells
        /\ IF IsHorizontalLayout THEN s = {"right"} /\ t = {"left"}
                                 ELSE s = {"bottom"} /\ t = {"top"}

\* C3. After generation and before any rotation the source is powered and
\* every powered flag equals the from-scratch propagation over the rotations.
C3_GeneratedFlagsArePropagated ==
    Fresh => /\ grid[sourcePosition].powered
             /\ PoweredCells(grid) = Reach(grid)

\* C4. After every accepted rotation exactly the least fixed point is powered,
\* and updatePowerFlow gives the same grid again whatever the flags were.
C4_PowerIsLeastFixedPoint ==
    Sum(clickLog) > 0 =>
        /\ PoweredCells(grid) = Reach(grid)
        /\ updatePowerFlow(grid, sourcePosition) = grid
        /\ updatePowerFlow([c \in Cells |-> [grid[c] EXCEPT !.powered = TRUE]],
                           sourcePosition) = grid
        /\ updatePowerFlow([c \in Cells |->
                               [grid[c] EXCEPT !.powered = (c = sourcePosition \/ ~@)]],
                           sourcePosition) = grid

C4_Witness ==
    /\ Sum(clickLog) > 0
    /\ gameState = "playing"
    /\ Cardinality(PoweredCells(grid)) >= 4
    /\ \E c \in Cells : grid[c].connections # {} /\ ~grid[c].powered

\* C5. Four clicks on the same non-fixed piece bring back its rotation and
\* its connections.
C5_FourClicksRestorePiece ==
    \A c \in Cells :
        clickLog[c] = 4 => /\ grid[c].rotation = grid0[c].rotation
                           /\ grid[c].connections = grid0[c].connections

C5_Witness ==
    \E c \in Cells : /\ clickLog[c] = 4
                     /\ grid[c].type = "corner"
                     /\ grid[c].rotation = 270

\* C6. An accepted click ends in success iff the destination is powered after
\* the propagation and otherwise leaves the game playing; in every playing
\* state the destination is unpowered.
C6_WinRule ==
    /\ [][clickLog' # clickLog =>
            IF grid'[destinationPosition].powered
            THEN gameState' = "success"
            ELSE gameState' = "playing"]_vars
    /\ [](gameState = "playing" => ~grid[destinationPosition].powered)

C6_Witness ==
    /\ gameState = "success"
    /\ Sum(clickLog) > 0
    /\ pending # <<>>
    /\ destinationPosition \in Reach(grid)

(***************************************************************************)
(* Code Cracker: properties                                                *)
(***************************************************************************)
HasEmptySlot(guess) == \E i \in DOMAIN guess : guess[i] = Null

Occurrences(row, x) == Cardinality({i \in 1 .. Len(row) : row[i] = x})

RECURSIVE SumOver(_, _, _)
SumOver(F(_), lo, hi) == IF lo > hi THEN 0 ELSE F(lo) + SumOver(F, lo + 1, hi)

\* Positions where guess and code agree.
Agreeing(guess, code) == Cardinality({i \in 1 .. Len(code) : guess[i] = code[i]})

\* Sum over the palette of min(occurrences in guess, occurrences in code).
CommonColours(guess, code) ==
    LET Common(k) ==
            LET g == Occurrences(guess, colorOptions[k])
                c == Occurrences(code, colorOptions[k])
            IN  IF g < c THEN g ELSE c
    IN  SumOver(Common, 1, Len(colorOptions))

\* C7. checkGuess returns correct = the number of agreeing positions and
\* misplaced = sum over colours of min(occurrences) - correct; [R,G,B,B]
\* against [R,B,G,G] scores 1 and 2; guess and code are left as they were.
C7_ScoringIsMastermind ==
    scoreOut # NoScore =>
        /\ scoreOut.correct = Agreeing(scoreOut.guess, scoreOut.code)
        /\ scoreOut.misplaced = CommonColours(scoreOut.guess, scoreOut.code)
                                    - scoreOut.correct
        /\ ( /\ scoreOut.guess = <<Red, Green, Blue, Blue>>
             /\ scoreOut.code  = <<Red, Blue, Green, Green>> )
           => scoreOut.correct = 1 /\ scoreOut.misplaced = 2
        /\ currentGuess = scoreOut.guess
        /\ secretCode = scoreOut.code

C7_Witness ==
    /\ scoreOut # NoScore
    /\ scoreOut.guess = <<Red, Green, Blue, Blue>>
    /\ scoreOut.code  = <<Red, Blue, Green, Green>>
    /\ scoreOut.correct = 1
    /\ scoreOut.misplaced = 2

\* C8. submitGuess with an empty slot in the current guess changes nothing:
\* no step taken from such a state accepts a guess or touches currentAttempt,
\* attempts or feedback, and the rejected call leaves currentGuess,
\* selectedPosition and gameState alone too.
C8_IncompleteGuessRejected ==
    [][HasEmptySlot(currentGuess) =>
          /\ accepted' = accepted
          /\ UNCHANGED <<currentAttempt, attempts, feedback>>
          /\ rejected' => UNCHANGED <<currentGuess, selectedPosition, gameState>>]_vars

C8_Witness ==
    /\ rejected
    /\ gameState = "playing"
    /\ currentAttempt = 1
    /\ currentGuess = <<Null, Green>>

\* C9. Every completion reports as attempts used the number of guesses that
\* were accepted during the session.
C9_ReportedAttemptsAreAccepted ==
    \A i \in 1 .. Len(outbox) : outbox[i].data.attempts = accepted

\* C10. An accepted guess wins iff it equals the secret slot by slot and loses
\* by exhaustion iff it is wrong and is accepted guess number config.attempts;
\* success is reached in no other way; never more than config.attempts
\* guesses are accepted and currentAttempt stays in [0, attempts - 1].
C10_AttemptBudget ==
    /\ [][accepted' # accepted =>
            /\ accepted' = accepted + 1
            /\ gameState' = "success" <=> currentGuess = secretCode
            /\ gameState' = "failure" <=>
                   (currentGuess # secretCode /\ accepted' = ConfigAttempts)]_vars
    /\ [][gameState' = "success" /\ gameState # "success" =>
            accepted' # accepted]_vars
    /\ [](accepted <= ConfigAttempts)
    /\ [](currentAttempt \in 0 .. ConfigAttempts - 1)

C10_Witness ==
    /\ gameState = "failure"
    /\ accepted = ConfigAttempts
    /\ attempts[ConfigAttempts] # secretCode
    /\ ~HasEmptySlot(attempts[ConfigAttempts])
    /\ timerInterval = FALSE

(***************************************************************************)
(* CountdownTimer (utils.ts).  Time is counted in ticks of the timer's     *)
(* interval; an interval callback may come one tick late.                  *)
(***************************************************************************)
\* longest this.duration explored for a Countdown on its own
MaxDuration == 5

\* Date.now() advances by one or two ticks between two interval callbacks
TickSteps == {1, 2}

\* the `timer` object of the mounted component
Timer ==
    [ timerInterval |-> timerInterval,
      elapsed       |-> elapsed,
      duration      |-> duration,
      leaked        |-> leaked ]

SetTimer(t) ==
    /\ timerInterval' = t.timerInterval
    /\ elapsed' = t.elapsed
    /\ duration' = t.duration
    /\ leaked' = t.leaked

\* timer = new CountdownTimer(d, ...), replacing the object t: an interval t
\* still has set keeps firing, and nothing holds its handle any more.
CountdownTimer(t, d) ==
    [ timerInterval |-> FALSE,
      elapsed       |-> 0,
      duration      |-> d,
      leaked        |-> t.leaked + (IF t.timerInterval THEN 1 ELSE 0) ]

\* start(): this.startTime = Date.now(); this.timerInterval = setInterval(...)
start(t) ==
    [t EXCEPT !.elapsed = 0,
              !.timerInterval = TRUE,
              !.leaked = @ + (IF t.timerInterval THEN 1 ELSE 0)]

\* stop() that leaves the interval set
stopKeepsInterval(t) == t

\* stop(): if (this.timerInterval) { clearInterval; this.timerInterval = null }
stop(t) == [t EXCEPT !.timerInterval = FALSE]

\* reset() without this.startTime = Date.now()
resetKeepsStart(t) == stop(t)

\* reset(): this.stop(); this.startTime = Date.now()
reset(t) == [stop(t) EXCEPT !.elapsed = 0]

isRunning(t) == t.timerInterval

Max(a, b) == IF a >= b THEN a ELSE b

\* The interval callback computing remaining without Math.max(0, ...)
tickUnclamped(t, dt) ==
    LET now       == [t EXCEPT !.elapsed = @ + dt]
        remaining == now.duration - now.elapsed
    IN  [ remaining |-> remaining,
          complete  |-> remaining <= 0,
          timer     |-> IF remaining <= 0 THEN stop(now) ELSE now ]

\* The interval callback without its this.stop()
tickNoStop(t, dt) ==
    LET now       == [t EXCEPT !.elapsed = @ + dt]
        remaining == Max(0, now.duration - now.elapsed)
    IN  [ remaining |-> remaining,
          complete  |-> remaining <= 0,
          timer     |-> now ]

\* The interval callback, dt ticks after the previous one (or after start()):
\* the value it hands to onUpdate, whether it goes on to call onComplete, and
\* the timer as onComplete finds it.
\* The interval callback that stops at zero without calling onComplete
tickNoComplete(t, dt) ==
    LET now       == [t EXCEPT !.elapsed = @ + dt]
        remaining == Max(0, now.duration - now.elapsed)
    IN  [ remaining |-> remaining,
          complete  |-> FALSE,
          timer     |-> IF remaining <= 0 THEN stop(now) ELSE now ]

tick(t, dt) ==
    LET now       == [t EXCEPT !.elapsed = @ + dt]
        remaining == Max(0, now.duration - now.elapsed)
    IN  [ remaining |-> remaining,
          complete  |-> remaining <= 0,
          timer     |-> IF remaining <= 0 THEN stop(now) ELSE now ]

(***************************************************************************)
(* A Countdown on its own: callbacks that only record that they were       *)
(* called.  It is started the way the components start theirs, never       *)
(* while it is running.                                                    *)
(***************************************************************************)
NothingMounted ==
    /\ minigameType = "none"
    /\ gameState = "idle"
    /\ pending = <<>>
    /\ outbox = <<>>
    /\ rejected = FALSE
    /\ config = NoConfig
    /\ CircuitIdle /\ CodeIdle /\ SafeIdle /\ MemoryIdle /\ ThermiteIdle /\ SessionOpen

\* new CountdownTimer(d, onUpdate, onComplete)
InitCountdown ==
    /\ NothingMounted
    /\ duration \in 0 .. MaxDuration
    /\ timerInterval = FALSE
    /\ elapsed = 0
    /\ timeLeft = duration
    /\ leaked = 0
    /\ timerLog = <<>>

gameVars == <<minigameType, gameState, pending, outbox, rejected, config,
              circuitVars, codeVars, scoreOut, safeVars, memoryVars, thermiteVars,
              appVars>>

CountdownStart ==
    /\ ~isRunning(Timer)
    /\ SetTimer(start(Timer))
    /\ timerLog' = <<[kind |-> "start"]>>
    /\ UNCHANGED <<timeLeft, gameVars>>

CountdownTick ==
    /\ isRunning(Timer)
    /\ \E dt \in TickSteps :
        LET r == tick(Timer, dt) IN
        /\ SetTimer(r.timer)
        /\ timeLeft' = r.remaining
        /\ timerLog' = timerLog \o <<[kind |-> "update", remaining |-> r.remaining]>>
                       \o (IF r.complete
                           THEN <<[kind |-> "complete", running |-> isRunning(r.timer)]>>
                           ELSE <<>>)
    /\ UNCHANGED gameVars

\* stop() called by the owner of a running Countdown
CountdownStop ==
    /\ isRunning(Timer)
    /\ SetTimer(stop(Timer))
    /\ timerLog' = Append(timerLog, [kind |-> "stop"])
    /\ UNCHANGED <<timeLeft, gameVars>>

\* reset() called by the owner
CountdownReset ==
    /\ SetTimer(reset(Timer))
    /\ timerLog' = IF isRunning(Timer) THEN Append(timerLog, [kind |-> "stop"])
                                       ELSE timerLog
    /\ UNCHANGED <<timeLeft, gameVars>>

NextCountdown ==
    \/ CountdownStart
    \/ CountdownTick
    \/ CountdownStop
    \/ CountdownReset

\* setInterval keeps calling back for as long as the interval is set
SpecCountdown == InitCountdown /\ [][NextCountdown]_vars /\ WF_vars(CountdownTick)

(***************************************************************************)
(* The methods of a Countdown called in any order by its owner, each call  *)
(* recorded with the timer as it found it and as it left it.               *)
(***************************************************************************)
\* calls explored on one Countdown
MaxCalls == 4

InitCalls == InitCountdown

callFrame == <<minigameType, gameState, pending, outbox, rejected, config,
               circuitVars, codeVars, scoreOut, safeVars, memoryVars, thermiteVars,
               active, component, sent, appConfig, hostVars, timerLog>>

Called(op, after) ==
    /\ Len(calls) < MaxCalls
    /\ SetTimer(after)
    /\ calls' = Append(calls, [op |-> op, before |-> Timer, after |-> after])
    /\ UNCHANGED callFrame

CallStart ==
    /\ ~isRunning(Timer)
    /\ Called("start", start(Timer))
    /\ UNCHANGED timeLeft

\* the interval callback, for as long as the interval is set
CallTick ==
    /\ isRunning(Timer)
    /\ \E dt \in TickSteps :
        LET r == tick(Timer, dt) IN
        /\ Called(IF r.complete THEN "complete" ELSE "update", r.timer)
        /\ timeLeft' = r.remaining

CallStop ==
    /\ Called("stop", stop(Timer))
    /\ UNCHANGED timeLeft

CallReset ==
    /\ Called("reset", reset(Timer))
    /\ UNCHANGED timeLeft

NextCalls ==
    \/ CallStart
    \/ CallTick
    \/ CallStop
    \/ CallReset

SpecCalls == InitCalls /\ [][NextCalls]_vars

(***************************************************************************)
(* Safe Cracker (SafeCracker.svelte)                                       *)
(***************************************************************************)
TOTAL_DEGREES == 360
MIN_ZONE_SIZE == 10
MAX_ZONE_SIZE == 30

\* config.duration and config.displayTime of the explored sessions, in ticks
ConfigDuration == 2
ConfigDisplayTime == 1

\* The overlap test with a clearance of 60 degrees demanded around a zone
ZonesOverlapApart(startPosition, zoneSize, zone) ==
    \/ (startPosition >= zone.start - 60 /\ startPosition <= zone.end + 60)
    \/ (startPosition + zoneSize >= zone.start - 60 /\ startPosition + zoneSize <= zone.end + 60)
    \/ (zone.start - 60 >= startPosition /\ zone.start - 60 <= startPosition + zoneSize)

\* The overlap test of generateSuccessZones for the candidate
\* [startPosition, startPosition + zoneSize] against an accepted zone.
ZonesOverlap(startPosition, zoneSize, zone) ==
    \/ (startPosition >= zone.start /\ startPosition <= zone.end)
    \/ (startPosition + zoneSize >= zone.start /\ startPosition + zoneSize <= zone.end)
    \/ (zone.start >= startPosition /\ zone.start <= startPosition + zoneSize)

\* The do-while loop: one draw of Math.random per pass, taken from the
\* stream draws; it has not ended when the stream runs out.
RECURSIVE FindPosition(_, _, _)
FindPosition(zones, zoneSize, draws) ==
    IF draws = <<>>
    THEN [found |-> FALSE]
    ELSE LET startPosition == getRandomInt(0, TOTAL_DEGREES - zoneSize, Head(draws)) IN
         IF \E k \in 1 .. Len(zones) : ZonesOverlap(startPosition, zoneSize, zones[k])
         THEN FindPosition(zones, zoneSize, Tail(draws))
         ELSE [found |-> TRUE, startPosition |-> startPosition, draws |-> Tail(draws)]

\* The for loop of generateSuccessZones from zone i on.
RECURSIVE ZoneLoop(_, _, _, _, _)
ZoneLoop(i, count, zones, sizeDraw, draws) ==
    IF i >= count
    THEN [returned |-> TRUE, successZones |-> zones]
    ELSE LET zoneSize == getRandomInt(MIN_ZONE_SIZE, MAX_ZONE_SIZE, sizeDraw)
             pos      == FindPosition(zones, zoneSize, draws)
         IN  IF ~pos.found
             THEN [returned |-> FALSE, successZones |-> zones]
             ELSE ZoneLoop(i + 1, count,
                           Append(zones, [start |-> pos.startPosition,
                                          end   |-> pos.startPosition + zoneSize,
                                          found |-> FALSE]),
                           sizeDraw, pos.draws)

generateSuccessZones(count, sizeDraw, draws) == ZoneLoop(0, count, <<>>, sizeDraw, draws)

\* (a % 360) of JavaScript: the sign of the dividend
JsRemainder(a, n) == IF a >= 0 THEN a % n ELSE 0 - ((0 - a) % n)

\* rotateDial(delta), up to the call of checkSuccessZones
rotateDial(rotation, delta) ==
    LET r == JsRemainder(rotation + delta, 360) IN
    IF r < 0 THEN r + 360 ELSE r

\* showUnfoundZones()
showUnfoundZones(zones) == [k \in 1 .. Len(zones) |-> [zones[k] EXCEPT !.found = TRUE]]

\* The loop of checkSuccessZones from index i (1-based here) on; over is the
\* argument of the handleGameOver call it returns after, if any.
RECURSIVE checkSuccessZonesOffByOne(_, _, _)
checkSuccessZonesOffByOne(st, i, rotation) ==
    IF i > Len(st.successZones)
    THEN st
    ELSE LET zone == st.successZones[i] IN
         IF ~zone.found /\ rotation >= zone.start /\ rotation <= zone.end
         THEN LET st1 == [st EXCEPT !.successZones[i].found = TRUE,
                                    !.foundZonesCount = @ + 1,
                                    !.rotationCount = @ + 1]
              IN  IF st1.rotationCount > config.maxRotations
                  THEN [st1 EXCEPT !.over = "failure"]
                  ELSE IF st1.foundZonesCount = config.zones
                  THEN [st1 EXCEPT !.over = "success"]
                  ELSE checkSuccessZonesOffByOne(st1, i + 1, rotation)
         ELSE checkSuccessZonesOffByOne(st, i + 1, rotation)

\* The loop of checkSuccessZones without the test that the zone is not found yet
RECURSIVE checkSuccessZonesRecount(_, _, _)
checkSuccessZonesRecount(st, i, rotation) ==
    IF i > Len(st.successZones)
    THEN st
    ELSE LET zone == st.successZones[i] IN
         IF rotation >= zone.start /\ rotation <= zone.end
         THEN LET st1 == [st EXCEPT !.successZones[i].found = TRUE,
                                    !.foundZonesCount = @ + 1]
              IN  IF st1.foundZonesCount = config.zones
                  THEN [st1 EXCEPT !.over = "success"]
                  ELSE LET st2 == [st1 EXCEPT !.rotationCount = @ + 1] IN
                       IF st2.rotationCount >= config.maxRotations
                       THEN [st2 EXCEPT !.over = "failure"]
                       ELSE checkSuccessZonesRecount(st2, i + 1, rotation)
         ELSE checkSuccessZonesRecount(st, i + 1, rotation)

RECURSIVE checkSuccessZones(_, _, _)
checkSuccessZones(st, i, rotation) ==
    IF i > Len(st.successZones)
    THEN st
    ELSE LET zone == st.successZones[i] IN
         IF ~zone.found /\ rotation >= zone.start /\ rotation <= zone.end
         THEN LET st1 == [st EXCEPT !.successZones[i].found = TRUE,
                                    !.foundZonesCount = @ + 1]
              IN  IF st1.foundZonesCount = config.zones
                  THEN [st1 EXCEPT !.over = "success"]
                  ELSE LET st2 == [st1 EXCEPT !.rotationCount = @ + 1] IN
                       IF st2.rotationCount >= config.maxRotations
                       THEN [st2 EXCEPT !.over = "failure"]
                       ELSE checkSuccessZones(st2, i + 1, rotation)
         ELSE checkSuccessZones(st, i + 1, rotation)

\* handleGameOver(success) of the Safe Cracker, the timer being t
handleGameOverSafe(t, zones, success) ==
    /\ SetTimer(stop(t))
    /\ gameState' = IF success THEN "success" ELSE "failure"
    /\ successZones' = IF success THEN zones ELSE showUnfoundZones(zones)
    /\ pending' = Append(pending, [success |-> success])

otherGames == <<circuitVars, codeVars, scoreOut, memoryVars, thermiteVars, appVars,
                pointerVars>>

\* startDrag(e)
startDrag ==
    /\ rejected' = (gameState # "playing")
    /\ isDragging' = IF gameState # "playing" THEN isDragging ELSE TRUE
    /\ UNCHANGED <<sharedVars, config, clockVars, currentRotation, rotationCount,
                   successZones, foundZonesCount, otherGames>>

\* endDrag()
endDrag ==
    /\ rejected' = FALSE
    /\ isDragging' = FALSE
    /\ UNCHANGED <<sharedVars, config, clockVars, currentRotation, rotationCount,
                   successZones, foundZonesCount, otherGames>>

\* drag(e), the pointer having turned by delta since the last event
drag(delta) ==
    /\ rejected' = (~isDragging \/ gameState # "playing")
    /\ IF ~isDragging \/ gameState # "playing"
       THEN UNCHANGED <<sharedVars, clockVars, currentRotation, rotationCount,
                        successZones, foundZonesCount>>
       ELSE LET rotation == rotateDial(currentRotation, delta)
                st == checkSuccessZones([successZones    |-> successZones,
                                         foundZonesCount |-> foundZonesCount,
                                         rotationCount   |-> rotationCount,
                                         over            |-> "none"], 1, rotation)
            IN  /\ currentRotation' = rotation
                /\ foundZonesCount' = st.foundZonesCount
                /\ rotationCount' = st.rotationCount
                /\ IF st.over = "none"
                   THEN /\ successZones' = st.successZones
                        /\ UNCHANGED <<gameState, timerInterval, pending, elapsed,
                                       duration, leaked>>
                   ELSE handleGameOverSafe(Timer, st.successZones, st.over = "success")
                /\ UNCHANGED <<minigameType, outbox, timeLeft, timerLog>>
    /\ UNCHANGED <<config, isDragging, otherGames>>

\* The interval callback of the Safe Cracker's Countdown
TickSafe ==
    /\ isRunning(Timer)
    /\ \E dt \in TickSteps :
        LET r == tick(Timer, dt) IN
        /\ timeLeft' = r.remaining
        /\ IF r.complete
           THEN handleGameOverSafe(r.timer, successZones, FALSE)
           ELSE /\ SetTimer(r.timer)
                /\ UNCHANGED <<gameState, successZones, pending>>
    /\ rejected' = FALSE
    /\ UNCHANGED <<minigameType, outbox, config, timerLog, currentRotation,
                   rotationCount, foundZonesCount, isDragging, otherGames>>

(***************************************************************************)
(* Safe Cracker session                                                    *)
(***************************************************************************)
\* The three tiers of the configuration resolver (safe_cracker)
SafeTiers ==
    { [difficulty |-> "easy",   duration |-> ConfigDuration, maxRotations |-> 1, zones |-> 5],
      [difficulty |-> "normal", duration |-> ConfigDuration, maxRotations |-> 2, zones |-> 4],
      [difficulty |-> "hard",   duration |-> ConfigDuration, maxRotations |-> 3, zones |-> 3] }

\* The draws of the generator that are explored: one draw for the width of
\* every zone (widths 10, 17 and 30), and two streams of draws for the start
\* positions, the second with candidates the overlap test has to reject.
SizeDraws == {0, 7, 20}
StartStreams ==
    { <<0, 40, 80, 120, 160>>,
      <<330, 100, 110, 200, 250, 300, 20, 60>> }

\* How far the pointer turns between two mouse or touch events
Deltas == {-1, 7, 90}

\* onMount: generateSuccessZones(), new CountdownTimer(config.duration, ...),
\* startGame().
InitSafe ==
    /\ minigameType = "safe_cracker"
    /\ config \in SafeTiers
    /\ \E sizeDraw \in SizeDraws, draws \in StartStreams :
          LET made == generateSuccessZones(config.zones, sizeDraw, draws) IN
          /\ made.returned
          /\ successZones = made.successZones
    /\ currentRotation = 0
    /\ rotationCount = 0
    /\ foundZonesCount = 0
    /\ isDragging = FALSE
    /\ prevAngle = 0
    /\ lastDelta = 0
    /\ gameState = "playing"
    /\ timeLeft = config.duration
    /\ timerInterval = TRUE
    /\ elapsed = 0
    /\ duration = config.duration
    /\ leaked = 0
    /\ timerLog = <<>>
    /\ pending = <<>>
    /\ outbox = <<>>
    /\ rejected = FALSE
    /\ CircuitIdle /\ CodeIdle /\ MemoryIdle /\ ThermiteIdle /\ SessionOpen

StartDrag == startDrag
Drag      == \E delta \in Deltas : drag(delta)
EndDrag   == endDrag

NextSafe ==
    \/ StartDrag
    \/ Drag
    \/ EndDrag
    \/ TickSafe
    \/ DispatchComplete

SpecSafe == InitSafe /\ [][NextSafe]_vars

(***************************************************************************)
(* Safe Cracker session with the pointer followed: startDrag and drag take *)
(* the angle calculateAngle has computed for the event, in whole degrees.  *)
(***************************************************************************)
\* The delta of drag(e) without the wrap-around handling
angleDeltaRaw(prev, currentAngle) == currentAngle - prev

\* drag(e): angleDiff = currentAngle - prevAngle, then the wrap-around
angleDelta(prev, currentAngle) ==
    LET angleDiff == currentAngle - prev IN
    IF angleDiff > 180 THEN angleDiff - 360
    ELSE IF angleDiff < -180 THEN angleDiff + 360
    ELSE angleDiff

\* startDrag(e), the pointer being at angle
startDragAt(angle) ==
    /\ rejected' = (gameState # "playing")
    /\ IF gameState # "playing"
       THEN UNCHANGED <<isDragging, prevAngle>>
       ELSE isDragging' = TRUE /\ prevAngle' = angle
    /\ UNCHANGED <<sharedVars, config, clockVars, currentRotation, rotationCount,
                   successZones, foundZonesCount, lastDelta,
                   circuitVars, codeVars, scoreOut, memoryVars, thermiteVars, appVars>>

\* drag(e), the pointer being at angle
dragTo(angle) ==
    /\ rejected' = (~isDragging \/ gameState # "playing")
    /\ IF ~isDragging \/ gameState # "playing"
       THEN UNCHANGED <<sharedVars, clockVars, currentRotation, rotationCount,
                        successZones, foundZonesCount, pointerVars>>
       ELSE LET delta == angleDelta(prevAngle, angle)
                rotation == rotateDial(currentRotation, delta)
                st == checkSuccessZones([successZones    |-> successZones,
                                         foundZonesCount |-> foundZonesCount,
                                         rotationCount   |-> rotationCount,
                                         over            |-> "none"], 1, rotation)
            IN  /\ lastDelta' = delta
                /\ prevAngle' = angle
                /\ currentRotation' = rotation
                /\ foundZonesCount' = st.foundZonesCount
                /\ rotationCount' = st.rotationCount
                /\ IF st.over = "none"
                   THEN /\ successZones' = st.successZones
                        /\ UNCHANGED <<gameState, timerInterval, pending, elapsed,
                                       duration, leaked>>
                   ELSE handleGameOverSafe(Timer, st.successZones, st.over = "success")
                /\ UNCHANGED <<minigameType, outbox, timeLeft, timerLog>>
    /\ UNCHANGED <<config, isDragging, circuitVars, codeVars, scoreOut, memoryVars,
                   thermiteVars, appVars>>

\* The pointer angles explored: pairs half a turn apart, pairs on either
\* side of the 0/360 boundary, pairs more than half a turn apart
Angles == {0, 45, 180, 225, 315}

\* one session of each tier
InitDial ==
    /\ InitSafe
    /\ successZones[1].start = 0
    /\ successZones[1].end = 10

StartDragAt == \E angle \in Angles : startDragAt(angle)
DragTo      == \E angle \in Angles : dragTo(angle)

NextDial ==
    \/ StartDragAt
    \/ DragTo
    \/ EndDrag
    \/ TickSafe
    \/ DispatchComplete

SpecDial == InitDial /\ [][NextDial]_vars

(***************************************************************************)
(* Safe Cracker generation step by step: the component is being mounted,   *)
(* generateSuccessZones() is between two passes of its for loop, and the   *)
(* draws of the next pass are arbitrary.                                   *)
(***************************************************************************)
\* The draws explored for zoneSize (widths 10 and 30) and for startPosition:
\* the starts pack zones of width 30 as densely as the overlap test allows
\* (30, 91, 152, 213), and reach the largest start a width of 30 can draw.
PlacementSizeDraws == {0, 20}
PlacementStarts == {30, 91, 152, 213, 330}

\* One pass of the for loop of generateSuccessZones, the do-while loop
\* drawing startPosition from draws; the pass ends when a draw is accepted.
placeZone(sizeDraw, draws) ==
    /\ minigameType = "safe_cracker"
    /\ gameState = "idle"
    /\ Len(successZones) < config.zones
    /\ LET zoneSize == getRandomInt(MIN_ZONE_SIZE, MAX_ZONE_SIZE, sizeDraw)
           pos      == FindPosition(successZones, zoneSize, draws)
       IN  /\ pos.found
           /\ successZones' = Append(successZones,
                                     [start |-> pos.startPosition,
                                      end   |-> pos.startPosition + zoneSize,
                                      found |-> FALSE])
           /\ rejected' = (pos.draws # Tail(draws))
    /\ UNCHANGED <<sharedVars, config, clockVars, currentRotation, rotationCount,
                   foundZonesCount, isDragging, otherGames>>

\* The rest of onMount once the zones are generated: the countdown is
\* created and startGame() starts it.
startGameSafe ==
    /\ minigameType = "safe_cracker"
    /\ gameState = "idle"
    /\ Len(successZones) = config.zones
    /\ gameState' = "playing"
    /\ SetTimer(start(CountdownTimer(Timer, config.duration)))
    /\ rejected' = FALSE
    /\ UNCHANGED <<minigameType, pending, outbox, config, timeLeft, timerLog,
                   safeVars, otherGames>>

\* The component at the start of onMount
InitZones ==
    /\ minigameType = "safe_cracker"
    /\ config \in SafeTiers
    /\ gameState = "idle"
    /\ timeLeft = config.duration
    /\ timerInterval = FALSE
    /\ elapsed = 0
    /\ duration = 0
    /\ leaked = 0
    /\ timerLog = <<>>
    /\ pending = <<>>
    /\ outbox = <<>>
    /\ rejected = FALSE
    /\ SafeIdle /\ CircuitIdle /\ CodeIdle /\ MemoryIdle /\ ThermiteIdle /\ SessionOpen

PlaceZone ==
    \E sizeDraw \in PlacementSizeDraws, first \in PlacementStarts, second \in PlacementStarts :
        placeZone(sizeDraw, <<first, second>>)

\* A pass of the for loop in which the do-while loop ends
Placed == PlaceZone /\ Len(successZones') = Len(successZones) + 1

NextZones == PlaceZone \/ startGameSafe

\* Fair sampling: a start position that can be drawn and accepted
\* infinitely often is drawn; onMount runs to its end.
SpecZones ==
    /\ InitZones
    /\ [][NextZones]_vars
    /\ SF_vars(Placed)
    /\ WF_vars(startGameSafe)

(***************************************************************************)
(* Safe Cracker: claims                                                    *)
(***************************************************************************)
\* the degrees of the closed interval [start, end] of a zone
ZoneDegrees(zone) == zone.start .. zone.end

\* C11: in every generated zone set no two zones share a degree, and every
\* zone has 0 <= start < end, both bounds inside [0, 360), and a width
\* between 10 and 30.
C11_ZonesDisjointInsideDial ==
    minigameType = "safe_cracker" =>
        \A i \in 1 .. Len(successZones) :
            LET zone == successZones[i] IN
            /\ 0 <= zone.start /\ zone.start < zone.end
            /\ zone.start < 360 /\ zone.end < 360
            /\ zone.end - zone.start >= 10 /\ zone.end - zone.start <= 30
            /\ \A j \in 1 .. Len(successZones) :
                  i # j => ZoneDegrees(zone) \cap ZoneDegrees(successZones[j]) = {}

\* the completion events a session with more zones than rotations may send
\* once its rotation budget is used up
BudgetReport ==
    [ success |-> FALSE,
      data    |-> [ timeRemaining |-> timeLeft,
                    zonesFound    |-> config.maxRotations,
                    totalZones    |-> config.zones ] ]

\* C12: with zones > maxRotations, finding the maxRotations-th zone moves the
\* game to failure in the same step, no zone is found after that, and the
\* completion reports success = false, zonesFound = maxRotations and
\* totalZones = zones.
C12_BudgetExhaustion ==
    /\ [](minigameType = "safe_cracker" /\ config.zones > config.maxRotations =>
            /\ foundZonesCount <= config.maxRotations
            /\ foundZonesCount = config.maxRotations =>
                  /\ gameState = "failure"
                  /\ pending \o outbox # <<>>
                  /\ \A k \in 1 .. Len(pending) : pending[k] = [success |-> FALSE]
                  /\ \A k \in 1 .. Len(outbox) : outbox[k] = BudgetReport)
    /\ [][gameState = "failure" => foundZonesCount' = foundZonesCount]_vars

\* the spec's example: zones = 4, maxRotations = 2 reports 2 of 4
C12_Witness ==
    /\ minigameType = "safe_cracker"
    /\ config.zones = 4 /\ config.maxRotations = 2
    /\ gameState = "failure"
    /\ timeLeft > 0
    /\ Len(outbox) = 1
    /\ ~outbox[1].success
    /\ outbox[1].data.zonesFound = 2
    /\ outbox[1].data.totalZones = 4

\* the dial's state as checkSuccessZones reads and leaves it
Dial ==
    [ successZones    |-> successZones,
      foundZonesCount |-> foundZonesCount,
      rotationCount   |-> rotationCount,
      over            |-> "none" ]

\* Some sequence of dial positions, each taken through checkSuccessZones,
\* ends in handleGameOver(true).  (A position outside every unfound zone
\* changes nothing, so only the positions inside one are tried.)
RECURSIVE CanWin(_)
CanWin(st) ==
    \E k \in 1 .. Len(st.successZones) :
        /\ ~st.successZones[k].found
        /\ \E rotation \in ZoneDegrees(st.successZones[k]) \cap (0 .. 359) :
              LET next == checkSuccessZones(st, 1, rotation) IN
              \/ next.over = "success"
              \/ next.over = "none" /\ CanWin(next)

\* C13: at each documented tier (easy 1 rotation / 5 zones, normal 2 / 4,
\* hard 3 / 3) a freshly started session has a sequence of dial movements,
\* made before the Countdown expires, that ends in success with every zone
\* found.
C13_EveryTierWinnable ==
    (minigameType = "safe_cracker" /\ gameState = "playing"
        /\ foundZonesCount = 0 /\ isRunning(Timer))
    => CanWin(Dial)

(***************************************************************************)
(* Memory Sequence (MemorySequence.svelte).  showSequence and              *)
(* showCorrectSequence only add and remove CSS classes; they are left out. *)
(***************************************************************************)
\* generateGrid(): tile i * size + j at row i, column j
generateGrid(size) ==
    [c \in (0 .. size - 1) \X (0 .. size - 1) |-> c[1] * size + c[2]]

\* sequence.includes(num)
Includes(seq, x) == \E k \in 1 .. Len(seq) : seq[k] = x

\* The do-while loop of generateSequence: one draw of Math.random per pass,
\* from the stream draws; it has not ended when the stream runs out.
RECURSIVE DrawFresh(_, _, _)
DrawFresh(seq, totalCells, draws) ==
    IF draws = <<>>
    THEN [found |-> FALSE]
    ELSE LET num == getRandomInt(0, totalCells - 1, Head(draws)) IN
         IF Includes(seq, num)
         THEN DrawFresh(seq, totalCells, Tail(draws))
         ELSE [found |-> TRUE, num |-> num, draws |-> Tail(draws)]

RECURSIVE SequenceLoop(_, _, _, _, _)
SequenceLoop(i, sequenceLength, seq, totalCells, draws) ==
    IF i >= sequenceLength
    THEN [returned |-> TRUE, sequence |-> seq]
    ELSE LET d == DrawFresh(seq, totalCells, draws) IN
         IF ~d.found
         THEN [returned |-> FALSE, sequence |-> seq]
         ELSE SequenceLoop(i + 1, sequenceLength, Append(seq, d.num), totalCells, d.draws)

\* generateSequence() pushing whatever it draws first
generateSequenceNoRetry(size, sequenceLength, draws) ==
    IF Len(draws) < sequenceLength
    THEN [returned |-> FALSE, sequence |-> <<>>]
    ELSE [returned |-> TRUE,
          sequence |-> [k \in 1 .. sequenceLength |->
                           getRandomInt(0, size * size - 1, draws[k])]]

\* generateSequence()
generateSequence(size, sequenceLength, draws) ==
    SequenceLoop(0, sequenceLength, <<>>, size * size, draws)

\* handleGameOver(success) of the Memory Sequence, the timer being t
handleGameOverMemory(t, success) ==
    /\ SetTimer(stop(t))
    /\ gameState' = IF success THEN "success" ELSE "failure"
    /\ pending' = Append(pending, [success |-> success])

\* startInputPhase() that leaves the Countdown as it finds it
startInputPhaseNoRestart(t) ==
    /\ gameState' = "input"
    /\ playerSequence' = <<>>
    /\ currentIndex' = 0
    /\ SetTimer(t)
    /\ UNCHANGED pending

\* startInputPhase(), the timer being t
startInputPhase(t) ==
    /\ gameState' = "input"
    /\ playerSequence' = <<>>
    /\ currentIndex' = 0
    /\ SetTimer(start(reset(t)))
    /\ UNCHANGED pending

notMemory == <<sourcePosition, destinationPosition, grid0, clickLog, codeVars,
               scoreOut, safeVars, thermiteVars, appVars>>

\* handleTileClick(tileNumber) taking any tile of the sequence as correct
handleTileClickAnyOrder(tileNumber) ==
    /\ rejected' = (gameState # "input")
    /\ IF gameState # "input"
       THEN UNCHANGED <<sharedVars, clockVars, memoryVars>>
       ELSE /\ playerSequence' = Append(playerSequence, tileNumber)
            /\ IF Includes(sequence, tileNumber)
               THEN /\ currentIndex' = currentIndex + 1
                    /\ IF currentIndex + 1 = Len(sequence)
                       THEN handleGameOverMemory(Timer, TRUE)
                       ELSE UNCHANGED <<gameState, pending, timerInterval, elapsed,
                                        duration, leaked>>
               ELSE /\ handleGameOverMemory(Timer, FALSE)
                    /\ UNCHANGED currentIndex
            /\ UNCHANGED <<minigameType, outbox, sequence, timeLeft, timerLog>>
    /\ UNCHANGED <<config, grid, notMemory>>

\* handleTileClick adding the tile to playerSequence only when it is the
\* expected one
handleTileClickKeepsCorrect(tileNumber) ==
    /\ rejected' = (gameState # "input")
    /\ IF gameState # "input"
       THEN UNCHANGED <<sharedVars, clockVars, memoryVars>>
       ELSE /\ IF tileNumber = sequence[currentIndex + 1]
               THEN /\ playerSequence' = Append(playerSequence, tileNumber)
                    /\ currentIndex' = currentIndex + 1
                    /\ IF currentIndex + 1 = Len(sequence)
                       THEN handleGameOverMemory(Timer, TRUE)
                       ELSE UNCHANGED <<gameState, pending, timerInterval, elapsed,
                                        duration, leaked>>
               ELSE /\ handleGameOverMemory(Timer, FALSE)
                    /\ UNCHANGED <<currentIndex, playerSequence>>
            /\ UNCHANGED <<minigameType, outbox, sequence, timeLeft, timerLog>>
    /\ UNCHANGED <<config, grid, notMemory>>

\* handleTileClick(tileNumber); every tile of the grid has its element tile-n
handleTileClick(tileNumber) ==
    /\ rejected' = (gameState # "input")
    /\ IF gameState # "input"
       THEN UNCHANGED <<sharedVars, clockVars, memoryVars>>
       ELSE /\ playerSequence' = Append(playerSequence, tileNumber)
            /\ IF tileNumber = sequence[currentIndex + 1]
               THEN /\ currentIndex' = currentIndex + 1
                    /\ IF currentIndex + 1 = Len(sequence)
                       THEN handleGameOverMemory(Timer, TRUE)
                       ELSE UNCHANGED <<gameState, pending, timerInterval, elapsed,
                                        duration, leaked>>
               ELSE /\ handleGameOverMemory(Timer, FALSE)
                    /\ UNCHANGED currentIndex
            /\ UNCHANGED <<minigameType, outbox, sequence, timeLeft, timerLog>>
    /\ UNCHANGED <<config, grid, notMemory>>

\* The interval callback of the Memory Sequence starting the input phase
\* again when the Countdown of the input phase completes
TickMemoryRetry ==
    /\ isRunning(Timer)
    /\ \E dt \in TickSteps :
        LET r == tick(Timer, dt) IN
        /\ timeLeft' = r.remaining
        /\ IF r.complete
           THEN startInputPhase(r.timer)
           ELSE /\ SetTimer(r.timer)
                /\ UNCHANGED <<gameState, pending, playerSequence, currentIndex>>
    /\ rejected' = FALSE
    /\ UNCHANGED <<minigameType, outbox, config, timerLog, sequence, grid, notMemory>>

\* The interval callback of the Memory Sequence's Countdown
TickMemory ==
    /\ isRunning(Timer)
    /\ \E dt \in TickSteps :
        LET r == tick(Timer, dt) IN
        /\ timeLeft' = r.remaining
        /\ IF r.complete /\ gameState = "observing"
           THEN startInputPhase(r.timer)
           ELSE IF r.complete /\ gameState = "input"
           THEN handleGameOverMemory(r.timer, FALSE)
                /\ UNCHANGED <<playerSequence, currentIndex>>
           ELSE /\ SetTimer(r.timer)
                /\ UNCHANGED <<gameState, pending, playerSequence, currentIndex>>
    /\ rejected' = FALSE
    /\ UNCHANGED <<minigameType, outbox, config, timerLog, sequence, grid, notMemory>>

(***************************************************************************)
(* Memory Sequence session                                                 *)
(***************************************************************************)
\* The three tiers of the configuration resolver (memory_sequence)
MemoryTiers ==
    { [difficulty |-> "easy",   duration |-> ConfigDuration, gridSize |-> 3, sequenceLength |-> 4],
      [difficulty |-> "normal", duration |-> ConfigDuration, gridSize |-> 4, sequenceLength |-> 6],
      [difficulty |-> "hard",   duration |-> ConfigDuration, gridSize |-> 5, sequenceLength |-> 8] }

\* The streams of draws explored for generateSequence: three written out (the
\* second and third repeat tiles, which the loop has to draw again) and the
\* streams a * k + b * k * k, most of which repeat tiles too.
SequenceStreams ==
    { <<0, 1, 2, 3, 4, 5, 6, 7>>,
      <<5, 5, 3, 12, 3, 24, 7, 0, 9, 30, 11, 2>>,
      <<8, 7, 7, 7, 6, 15, 14, 4, 13, 2, 24, 1>> }
    \cup { [k \in 1 .. 16 |-> a * k + b * k * k] : a \in 1 .. 7, b \in 0 .. 3 }

\* onMount: generateGrid(), generateSequence(), new CountdownTimer(
\* config.duration, ...), startGame().
InitMemory ==
    /\ minigameType = "memory_sequence"
    /\ config \in MemoryTiers
    /\ grid = generateGrid(config.gridSize)
    /\ \E draws \in SequenceStreams :
          LET made == generateSequence(config.gridSize, config.sequenceLength, draws) IN
          /\ made.returned
          /\ sequence = made.sequence
    /\ playerSequence = <<>>
    /\ currentIndex = 0
    /\ gameState = "observing"
    /\ timeLeft = config.duration
    /\ timerInterval = TRUE
    /\ elapsed = 0
    /\ duration = config.duration
    /\ leaked = 0
    /\ timerLog = <<>>
    /\ pending = <<>>
    /\ outbox = <<>>
    /\ rejected = FALSE
    /\ sourcePosition = <<>> /\ destinationPosition = <<>>
    /\ grid0 = <<>> /\ clickLog = <<>>
    /\ CodeIdle /\ SafeIdle /\ ThermiteIdle /\ SessionOpen

\* a click on one of the tiles the template renders from grid
TileClick == \E c \in DOMAIN grid : handleTileClick(grid[c])

NextMemory ==
    \/ TileClick
    \/ TickMemory
    \/ DispatchComplete

SpecMemory == InitMemory /\ [][NextMemory]_vars

(***************************************************************************)
(* Memory Sequence: claims                                                 *)
(***************************************************************************)
\* C14: the sequence generateSequence returns has exactly sequenceLength
\* entries, pairwise distinct, each in [0, gridSize * gridSize - 1].
C14_SequenceDistinctInGrid ==
    minigameType = "memory_sequence" =>
        /\ Len(sequence) = config.sequenceLength
        /\ \A i \in 1 .. Len(sequence) :
              /\ sequence[i] \in 0 .. config.gridSize * config.gridSize - 1
              /\ \A j \in 1 .. Len(sequence) : i # j => sequence[i] # sequence[j]

\* a sequence that needed a second draw: its first two tiles are 5 and 3,
\* from the stream that begins 5, 5, 3
C14_Witness ==
    /\ minigameType = "memory_sequence"
    /\ config.sequenceLength = 8
    /\ Len(sequence) = 8
    /\ sequence[1] = 5 /\ sequence[2] = 3
    /\ gameState = "observing"

\* the step is a click the input phase took: it added tile to playerSequence
Clicked(tile) == gameState = "input" /\ playerSequence' = Append(playerSequence, tile)

Tiles == 0 .. 24

\* C15: in the input phase a click on the tile sequence[cursor] advances the
\* cursor by one and ends in success exactly when the cursor reaches the
\* sequence length; a click on any other tile ends in failure in the same
\* step; success is never reached after a wrong click.
C15_InputPhase ==
    /\ [][\A tile \in Tiles :
            Clicked(tile) =>
                IF tile = sequence[currentIndex + 1]
                THEN /\ currentIndex' = currentIndex + 1
                     /\ gameState' = IF currentIndex' = Len(sequence)
                                     THEN "success" ELSE "input"
                ELSE /\ gameState' = "failure"
                     /\ currentIndex' = currentIndex]_vars
    /\ [][gameState = "failure" => gameState' = "failure"]_vars
    /\ [](minigameType = "memory_sequence" /\ gameState = "success"
            => playerSequence = sequence /\ currentIndex = Len(sequence))

C15_Witness ==
    /\ minigameType = "memory_sequence"
    /\ gameState = "success"
    /\ Len(playerSequence) = 8
    /\ playerSequence = sequence
    /\ Len(outbox) = 1 /\ outbox[1].success

\* C16: the game leaves observing only for input and only on the tick at
\* which the Countdown expires; nothing that happens during observing (tile
\* clicks included) changes playerSequence, the cursor or gameState before
\* that; on entering input the cursor and playerSequence are reset and the
\* Countdown runs again for the full config.duration.
C16_ObservingToInput ==
    [][gameState = "observing" =>
          /\ playerSequence' = <<>> /\ playerSequence = <<>>
          /\ currentIndex' = 0 /\ currentIndex = 0
          /\ rejected' => UNCHANGED <<gameState, timerInterval, elapsed, timeLeft>>
          /\ gameState' # "observing" =>
                /\ gameState' = "input"
                /\ timerInterval /\ timeLeft' = 0
                /\ timerInterval' /\ elapsed' = 0 /\ duration' = config.duration
                /\ leaked' = 0]_vars

\* just after the change of phase, clicks having been made during observing
C16_Witness ==
    /\ minigameType = "memory_sequence"
    /\ gameState = "input"
    /\ timeLeft = 0
    /\ timerInterval /\ elapsed = 0
    /\ playerSequence = <<>>

(***************************************************************************)
(* Thermite (Thermite.svelte).  createSparks only drives an animation; it  *)
(* is left out.                                                            *)
(***************************************************************************)
\* allPositions of generatePattern: row by row
RECURSIVE AllPositions(_, _)
AllPositions(size, k) ==
    IF k >= size * size THEN <<>>
    ELSE <<(<<k \div size, k % size>>)>> \o AllPositions(size, k + 1)

Swap(array, i, j) == [array EXCEPT ![i] = array[j], ![j] = array[i]]

\* The loop of shuffleArray from index i (0-based in the source) down to 1;
\* j = Math.floor(Math.random() * (i + 1)) for the draw draws[i].
RECURSIVE ShuffleLoop(_, _, _)
ShuffleLoop(array, i, draws) ==
    IF i <= 0 THEN array
    ELSE ShuffleLoop(Swap(array, i + 1, (draws[i] % (i + 1)) + 1), i - 1, draws)

\* The same loop copying newArray[j] into newArray[i] instead of swapping
RECURSIVE ShuffleLoopCopy(_, _, _)
ShuffleLoopCopy(array, i, draws) ==
    IF i <= 0 THEN array
    ELSE ShuffleLoopCopy([array EXCEPT ![i + 1] = array[(draws[i] % (i + 1)) + 1]],
                         i - 1, draws)

shuffleArrayCopying(array, draws) == ShuffleLoopCopy(array, Len(array) - 1, draws)

\* shuffleArray(array)
shuffleArray(array, draws) == ShuffleLoop(array, Len(array) - 1, draws)

Min(a, b) == IF a <= b THEN a ELSE b

\* array.slice(0, end)
Slice(array, end) ==
    LET n == IF end < 0 THEN Max(Len(array) + end, 0) ELSE Min(end, Len(array))
    IN  [k \in 1 .. n |-> array[k]]

\* resetGrids() followed by generatePattern()
generatePattern(cfg, draws) ==
    LET totalCells == cfg.gridSize * cfg.gridSize
        maxTargets == Min(cfg.targetCount, totalCells)
        shuffledPositions == shuffleArray(AllPositions(cfg.gridSize, 0), draws)
        targets == Slice(shuffledPositions, maxTargets)
    IN  [ targetCells |-> targets,
          grid |-> [c \in (0 .. cfg.gridSize - 1) \X (0 .. cfg.gridSize - 1) |->
                       \E k \in 1 .. Len(targets) : targets[k] = c],
          playerGrid |-> [c \in (0 .. cfg.gridSize - 1) \X (0 .. cfg.gridSize - 1) |->
                             FALSE] ]

\* handleGameOver(success) of the Thermite, the timer being t
handleGameOverThermite(t, success, selected) ==
    /\ SetTimer(stop(t))
    /\ gameState' = IF success THEN "success" ELSE "failure"
    /\ playerGrid' = IF success THEN selected ELSE grid
    /\ pending' = Append(pending, [success |-> success])

\* startSolvingPhase() that starts the timer of the memorize phase again
startSolvingPhaseSameTimer(t) ==
    /\ gameState' = "solving"
    /\ SetTimer(start(stop(t)))
    /\ UNCHANGED <<pending, playerGrid>>

\* startSolvingPhase(), the timer being t
startSolvingPhase(t) ==
    /\ gameState' = "solving"
    /\ SetTimer(start(CountdownTimer(stop(t), config.duration)))
    /\ UNCHANGED <<pending, playerGrid>>

notThermite == <<sourcePosition, destinationPosition, grid0, clickLog, codeVars,
                 scoreOut, safeVars, memoryVars, appVars>>

\* handleCellClick(row, col) without the test for a cell already selected
handleCellClickAgain(row, col) ==
    LET cell == <<row, col>> IN
    /\ rejected' = (gameState # "solving")
    /\ IF gameState # "solving"
       THEN UNCHANGED <<sharedVars, clockVars, thermiteVars>>
       ELSE LET selected == [playerGrid EXCEPT ![cell] = TRUE] IN
            /\ IF grid[cell]
               THEN /\ selectedCount' = selectedCount + 1
                    /\ UNCHANGED incorrectSelections
                    /\ IF selectedCount + 1 = Len(targetCells)
                       THEN handleGameOverThermite(Timer, TRUE, selected)
                       ELSE /\ playerGrid' = selected
                            /\ UNCHANGED <<gameState, pending, timerInterval, elapsed,
                                           duration, leaked>>
               ELSE /\ incorrectSelections' = incorrectSelections + 1
                    /\ UNCHANGED selectedCount
                    /\ IF incorrectSelections + 1 >= 3
                       THEN handleGameOverThermite(Timer, FALSE, selected)
                       ELSE /\ playerGrid' = selected
                            /\ UNCHANGED <<gameState, pending, timerInterval, elapsed,
                                           duration, leaked>>
            /\ UNCHANGED <<minigameType, outbox, targetCells, timeLeft, timerLog>>
    /\ UNCHANGED <<config, grid, notThermite>>

\* handleCellClick(row, col) failing on the fourth incorrect selection
handleCellClickFourStrikes(row, col) ==
    LET cell == <<row, col>> IN
    /\ rejected' = (gameState # "solving" \/ playerGrid[cell])
    /\ IF gameState # "solving" \/ playerGrid[cell]
       THEN UNCHANGED <<sharedVars, clockVars, thermiteVars>>
       ELSE LET selected == [playerGrid EXCEPT ![cell] = TRUE] IN
            /\ IF grid[cell]
               THEN /\ selectedCount' = selectedCount + 1
                    /\ UNCHANGED incorrectSelections
                    /\ IF selectedCount + 1 = Len(targetCells)
                       THEN handleGameOverThermite(Timer, TRUE, selected)
                       ELSE /\ playerGrid' = selected
                            /\ UNCHANGED <<gameState, pending, timerInterval, elapsed,
                                           duration, leaked>>
               ELSE /\ incorrectSelections' = incorrectSelections + 1
                    /\ UNCHANGED selectedCount
                    /\ IF incorrectSelections + 1 > 3
                       THEN handleGameOverThermite(Timer, FALSE, selected)
                       ELSE /\ playerGrid' = selected
                            /\ UNCHANGED <<gameState, pending, timerInterval, elapsed,
                                           duration, leaked>>
            /\ UNCHANGED <<minigameType, outbox, targetCells, timeLeft, timerLog>>
    /\ UNCHANGED <<config, grid, notThermite>>

\* handleCellClick(row, col)
handleCellClick(row, col) ==
    LET cell == <<row, col>> IN
    /\ rejected' = (gameState # "solving" \/ playerGrid[cell])
    /\ IF gameState # "solving" \/ playerGrid[cell]
       THEN UNCHANGED <<sharedVars, clockVars, thermiteVars>>
       ELSE LET selected == [playerGrid EXCEPT ![cell] = TRUE] IN
            /\ IF grid[cell]
               THEN /\ selectedCount' = selectedCount + 1
                    /\ UNCHANGED incorrectSelections
                    /\ IF selectedCount + 1 = Len(targetCells)
                       THEN handleGameOverThermite(Timer, TRUE, selected)
                       ELSE /\ playerGrid' = selected
                            /\ UNCHANGED <<gameState, pending, timerInterval, elapsed,
                                           duration, leaked>>
               ELSE /\ incorrectSelections' = incorrectSelections + 1
                    /\ UNCHANGED selectedCount
                    /\ IF incorrectSelections + 1 >= 3
                       THEN handleGameOverThermite(Timer, FALSE, selected)
                       ELSE /\ playerGrid' = selected
                            /\ UNCHANGED <<gameState, pending, timerInterval, elapsed,
                                           duration, leaked>>
            /\ UNCHANGED <<minigameType, outbox, targetCells, timeLeft, timerLog>>
    /\ UNCHANGED <<config, grid, notThermite>>

\* The interval callback of the Thermite's running Countdown
TickThermite ==
    /\ isRunning(Timer)
    /\ \E dt \in TickSteps :
        LET r == tick(Timer, dt) IN
        /\ timeLeft' = r.remaining
        /\ IF r.complete /\ gameState = "memorize"
           THEN startSolvingPhase(r.timer)
           ELSE IF r.complete /\ gameState = "solving"
           THEN handleGameOverThermite(r.timer, FALSE, playerGrid)
           ELSE /\ SetTimer(r.timer)
                /\ UNCHANGED <<gameState, pending, playerGrid>>
    /\ rejected' = FALSE
    /\ UNCHANGED <<minigameType, outbox, config, timerLog, targetCells, selectedCount,
                   incorrectSelections, grid, notThermite>>

(***************************************************************************)
(* Thermite session                                                        *)
(***************************************************************************)
\* The three tiers of the configuration resolver (thermite)
ThermiteTiers ==
    { [difficulty |-> "easy",   duration |-> ConfigDuration, displayTime |-> ConfigDisplayTime,
       gridSize |-> 5, targetCount |-> 3],
      [difficulty |-> "normal", duration |-> ConfigDuration, displayTime |-> ConfigDisplayTime,
       gridSize |-> 6, targetCount |-> 4],
      [difficulty |-> "hard",   duration |-> ConfigDuration, displayTime |-> ConfigDisplayTime,
       gridSize |-> 7, targetCount |-> 5] }

\* The draws of shuffleArray that are explored: draw a * i + b at index i
ShuffleDraws(size, as, bs) ==
    { [i \in 1 .. size * size - 1 |-> a * i + b] : a \in as, b \in bs }

\* largest grid of the tiers whose sessions are explored
MaxSessionGrid == 5

\* onMount: resetGrids(), generatePattern(), new CountdownTimer(
\* config.displayTime, ...), startGame().
InitThermite ==
    /\ minigameType = "thermite"
    /\ config \in {tier \in ThermiteTiers : tier.gridSize <= MaxSessionGrid}
    /\ \E draws \in ShuffleDraws(config.gridSize, {0, 3}, {1}) :
          LET made == generatePattern(config, draws) IN
          /\ grid = made.grid
          /\ playerGrid = made.playerGrid
          /\ targetCells = made.targetCells
    /\ selectedCount = 0
    /\ incorrectSelections = 0
    /\ gameState = "memorize"
    /\ timeLeft = config.duration
    /\ timerInterval = TRUE
    /\ elapsed = 0
    /\ duration = config.displayTime
    /\ leaked = 0
    /\ timerLog = <<>>
    /\ pending = <<>>
    /\ outbox = <<>>
    /\ rejected = FALSE
    /\ sourcePosition = <<>> /\ destinationPosition = <<>>
    /\ grid0 = <<>> /\ clickLog = <<>>
    /\ CodeIdle /\ SafeIdle /\ MemoryIdle /\ SessionOpen

\* a click on one of the cells the template renders from grid
CellClick == \E c \in DOMAIN grid : handleCellClick(c[1], c[2])

NextThermite ==
    \/ CellClick
    \/ TickThermite
    \/ DispatchComplete

SpecThermite == InitThermite /\ [][NextThermite]_vars

(***************************************************************************)
(* generatePattern on its own: small grids, target counts below and above  *)
(* the number of cells                                                     *)
(***************************************************************************)
MaxPatternGrid == 3
MaxTargetCount == 5

PatternConfigs ==
    { [difficulty |-> "test", duration |-> ConfigDuration, displayTime |-> ConfigDisplayTime,
       gridSize |-> g, targetCount |-> n] :
         g \in 1 .. MaxPatternGrid, n \in 0 .. MaxTargetCount }

\* the component before onMount has run
InitPattern ==
    /\ minigameType = "thermite"
    /\ config \in PatternConfigs
    /\ gameState = "idle"
    /\ timeLeft = config.duration
    /\ timerInterval = FALSE
    /\ elapsed = 0 /\ duration = 0 /\ leaked = 0 /\ timerLog = <<>>
    /\ pending = <<>> /\ outbox = <<>> /\ rejected = FALSE
    /\ CircuitIdle /\ CodeIdle /\ SafeIdle /\ MemoryIdle /\ ThermiteIdle /\ SessionOpen

\* onMount
MountThermite ==
    /\ gameState = "idle"
    /\ \E draws \in ShuffleDraws(config.gridSize, 0 .. 5, 0 .. 5) :
          LET made == generatePattern(config, draws) IN
          /\ grid' = made.grid
          /\ playerGrid' = made.playerGrid
          /\ targetCells' = made.targetCells
    /\ selectedCount' = 0
    /\ incorrectSelections' = 0
    /\ gameState' = "memorize"
    /\ SetTimer(start(CountdownTimer(Timer, config.displayTime)))
    /\ UNCHANGED <<minigameType, pending, outbox, rejected, config, timeLeft, timerLog,
                   notThermite>>

NextPattern == MountThermite

SpecPattern == InitPattern /\ [][NextPattern]_vars

(***************************************************************************)
(* Thermite: claims                                                        *)
(***************************************************************************)
\* the cells of the grid of a mounted Thermite
ThermiteCells == (0 .. config.gridSize - 1) \X (0 .. config.gridSize - 1)

\* C17: the generated pattern has exactly min(targetCount, gridSize * gridSize)
\* cells, pairwise distinct and inside the grid, and grid[row][col] is true
\* exactly for the pattern cells.
C17_PatternSizeAndGrid ==
    (minigameType = "thermite" /\ gameState # "idle") =>
        /\ Len(targetCells) = (IF config.targetCount <= config.gridSize * config.gridSize
                               THEN config.targetCount
                               ELSE config.gridSize * config.gridSize)
        /\ \A i \in 1 .. Len(targetCells) :
              /\ targetCells[i] \in ThermiteCells
              /\ \A j \in 1 .. Len(targetCells) : i # j => targetCells[i] # targetCells[j]
        /\ DOMAIN grid = ThermiteCells
        /\ \A c \in ThermiteCells :
              grid[c] <=> (\E i \in 1 .. Len(targetCells) : targetCells[i] = c)

\* a pattern cut down to the size of a 2 x 2 grid
C17_Witness ==
    /\ minigameType = "thermite"
    /\ gameState = "memorize"
    /\ config.gridSize = 2 /\ config.targetCount = 5
    /\ Len(targetCells) = 4

\* the cells the player has selected that are, or are not, pattern cells
SelectedCells(inPattern) ==
    {c \in ThermiteCells : playerGrid[c] /\ (grid[c] <=> inPattern)}

\* C18: in the solving phase every cell is counted at most once (a click on
\* a cell already selected changes no counter); the third selection of a
\* non-pattern cell, made before all pattern cells are found, moves the game
\* to failure in the same step whatever time remains, and the completion
\* reports success = false with incorrectSelections = 3; selecting the last
\* unfound pattern cell moves the game to success.
C18_SolvingPhase ==
    /\ [](minigameType = "thermite" /\ gameState = "solving" =>
            /\ selectedCount = Cardinality(SelectedCells(TRUE))
            /\ incorrectSelections = Cardinality(SelectedCells(FALSE))
            /\ incorrectSelections < 3
            /\ selectedCount < Len(targetCells))
    /\ [][gameState = "solving" =>
            /\ rejected' => UNCHANGED <<selectedCount, incorrectSelections, playerGrid,
                                        gameState>>
            /\ incorrectSelections' # incorrectSelections =>
                  /\ incorrectSelections' = incorrectSelections + 1
                  /\ selectedCount' = selectedCount
                  /\ gameState' = IF incorrectSelections' = 3 THEN "failure" ELSE "solving"
                  /\ incorrectSelections' = 3 =>
                        pending' = Append(pending, [success |-> FALSE])
            /\ selectedCount' # selectedCount =>
                  /\ selectedCount' = selectedCount + 1
                  /\ incorrectSelections' = incorrectSelections
                  /\ gameState' = IF selectedCount' = Len(targetCells)
                                  THEN "success" ELSE "solving"]_vars
    /\ [](minigameType = "thermite" /\ incorrectSelections = 3 =>
            /\ gameState = "failure"
            /\ \A k \in 1 .. Len(outbox) :
                  /\ ~outbox[k].success
                  /\ outbox[k].data.incorrectSelections = 3)

\* three wrong cells selected with time left and pattern cells found before
C18_Witness ==
    /\ minigameType = "thermite"
    /\ gameState = "failure"
    /\ incorrectSelections = 3
    /\ selectedCount = 2
    /\ timeLeft > 0
    /\ Len(outbox) = 1
    /\ outbox[1] = [success |-> FALSE,
                    data |-> [timeRemaining |-> timeLeft, correctSelections |-> 2,
                              incorrectSelections |-> 3, totalTargets |-> 3]]

\* C19: in memorize no step (cell clicks included) changes the grids or the
\* counters; the game leaves memorize only for solving, on the tick at which
\* the memorize Countdown (config.displayTime) expires, and then the old
\* Countdown is stopped and a fresh one runs from 0 for config.duration; at
\* most one Countdown is running in every state.
C19_PhaseChangeOneCountdown ==
    /\ [](leaked + (IF timerInterval THEN 1 ELSE 0) <= 1)
    /\ [][gameState = "memorize" =>
            /\ UNCHANGED <<grid, playerGrid, targetCells, selectedCount,
                           incorrectSelections>>
            /\ duration = config.displayTime
            /\ rejected' => UNCHANGED <<gameState, timerInterval, elapsed, timeLeft>>
            /\ gameState' # "memorize" =>
                  /\ gameState' = "solving"
                  /\ timerInterval /\ timeLeft' = 0
                  /\ timerInterval' /\ elapsed' = 0 /\ duration' = config.duration
                  /\ leaked' = 0]_vars

\* just after the change of phase
C19_Witness ==
    /\ minigameType = "thermite"
    /\ gameState = "solving"
    /\ timeLeft = 0
    /\ timerInterval /\ elapsed = 0 /\ duration = config.duration
    /\ duration # config.displayTime

(***************************************************************************)
(* CountdownTimer: claims                                                  *)
(***************************************************************************)
\* the callbacks of the current run so far, as the log of a Countdown that
\* keeps the contract shows them
RunLogInOrder ==
    \A k \in 1 .. Len(timerLog) :
        LET entry == timerLog[k] IN
        /\ entry.kind = "start" <=> k = 1
        /\ entry.kind = "update" =>
              /\ entry.remaining >= 0
              /\ k > 2 => timerLog[k - 1].remaining >= entry.remaining
              /\ entry.remaining = 0 =>
                    /\ k + 1 = Len(timerLog)
                    /\ timerLog[k + 1].kind = "complete"
        /\ entry.kind = "complete" =>
              /\ k = Len(timerLog)
              /\ timerLog[k - 1].kind = "update"
              /\ timerLog[k - 1].remaining = 0
              /\ ~entry.running
        /\ entry.kind = "stop" => k = Len(timerLog)

RunEnded ==
    /\ timerLog # <<>>
    /\ timerLog[Len(timerLog)].kind \in {"complete", "stop"}

\* C20: for each start() of a Countdown that is not stopped from outside the
\* completion callback is invoked exactly once, on the first tick at which
\* remaining is 0; the Countdown has stopped itself before the callback
\* runs, and no update or completion callback of that run comes afterwards.
C20_CompletesExactlyOnce ==
    /\ [](minigameType = "none" =>
            /\ RunLogInOrder
            /\ timerLog # <<>> => (isRunning(Timer) <=> ~RunEnded))
    /\ [][RunEnded => (timerLog' = timerLog \/ timerLog' = <<[kind |-> "start"]>>)]_vars
    /\ (minigameType = "none" /\ isRunning(Timer)) ~> RunEnded

\* a run of three ticks that has completed
C20_Witness ==
    /\ minigameType = "none"
    /\ ~isRunning(Timer)
    /\ Len(timerLog) = 5
    /\ timerLog[2] = [kind |-> "update", remaining |-> 2]
    /\ timerLog[4] = [kind |-> "update", remaining |-> 0]
    /\ timerLog[5] = [kind |-> "complete", running |-> FALSE]

(***************************************************************************)
(* The remaining time a Countdown reports                                  *)
(***************************************************************************)
\* the values the update callback has been handed since the last start()
Reported ==
    LET RECURSIVE From(_)
        From(k) == IF k > Len(timerLog) THEN <<>>
                   ELSE IF timerLog[k].kind = "update"
                        THEN <<timerLog[k].remaining>> \o From(k + 1)
                        ELSE From(k + 1)
    IN  From(1)

\* the step is one interval callback: it has handed a value to onUpdate
UpdateCalled ==
    /\ Len(timerLog') > Len(timerLog)
    /\ timerLog'[Len(timerLog) + 1].kind = "update"

\* C21: the remaining time a Countdown reports at a tick is
\* max(0, duration - (now - start)); the values reported during one run are
\* non-increasing and never negative.
C21_RemainingClamped ==
    /\ [](minigameType = "none" =>
            \A k \in 1 .. Len(Reported) :
                /\ Reported[k] >= 0
                /\ \A j \in 1 .. k : Reported[j] >= Reported[k])
    /\ [][(minigameType = "none" /\ UpdateCalled) =>
            /\ duration' = duration
            /\ elapsed' > elapsed
            /\ timerLog'[Len(timerLog) + 1].remaining =
                  (IF duration > elapsed' THEN duration - elapsed' ELSE 0)
            /\ timeLeft' = timerLog'[Len(timerLog) + 1].remaining]_vars

\* a run whose last tick came after the end of the duration: 1 then 0
C21_Witness ==
    /\ minigameType = "none"
    /\ Reported = <<1, 0>>
    /\ elapsed > duration

(***************************************************************************)
(* stop() and reset()                                                      *)
(***************************************************************************)
\* the interval callback has run as call k
IsCallback(k) == calls[k].op \in {"update", "complete"}

\* C22: stop() is idempotent: on a stopped or never-started Countdown it
\* changes nothing; after any stop() isRunning() is false and no callback
\* is invoked until the next start().
C22_StopIdempotent ==
    \A k \in 1 .. Len(calls) :
        /\ calls[k].op = "stop" =>
              /\ ~isRunning(calls[k].after)
              /\ calls[k].after.elapsed = calls[k].before.elapsed
              /\ calls[k].after.duration = calls[k].before.duration
              /\ calls[k].after.leaked = calls[k].before.leaked
              /\ ~isRunning(calls[k].before) => calls[k].after = calls[k].before
        /\ IsCallback(k) =>
              \E j \in 1 .. k - 1 :
                  /\ calls[j].op = "start"
                  /\ \A i \in j + 1 .. k - 1 : calls[i].op = "update"

\* stop() twice on a running Countdown, then a start() and a callback
C22_Witness ==
    /\ Len(calls) = 4
    /\ calls[1].op = "start"
    /\ calls[2].op = "stop" /\ isRunning(calls[2].before)
    /\ calls[3].op = "stop" /\ calls[3].after = calls[3].before
    /\ calls[4].op = "start"

\* C23: reset() leaves the duration unchanged, re-bases the start to now and
\* leaves the Countdown not running; a following start() runs for the full
\* original duration.
C23_ResetRebases ==
    \A k \in 1 .. Len(calls) :
        /\ calls[k].op = "reset" =>
              /\ calls[k].after.duration = calls[k].before.duration
              /\ calls[k].after.elapsed = 0
              /\ ~isRunning(calls[k].after)
              /\ calls[k].after.leaked = calls[k].before.leaked
        /\ (k > 1 /\ calls[k - 1].op = "reset" /\ calls[k].op = "start") =>
              /\ isRunning(calls[k].after)
              /\ calls[k].after.elapsed = 0
              /\ calls[k].after.duration = calls[k - 1].before.duration
              /\ \A j \in k + 1 .. Len(calls) :
                    (\A i \in k + 1 .. j : IsCallback(i)) =>
                        /\ calls[j].after.elapsed > calls[j].before.elapsed
                        /\ calls[j].op = "complete"
                              <=> calls[j].after.elapsed >= calls[k - 1].before.duration

\* reset() of a Countdown part of the way through its run, then start()
\* and a run to completion over the whole duration
C23_Witness ==
    /\ Len(calls) >= 4
    /\ calls[1].op = "start"
    /\ calls[2].op = "update" /\ calls[2].after.elapsed > 0
    /\ calls[3].op = "reset" /\ isRunning(calls[3].before)
    /\ calls[4].op = "start"
    /\ duration > 1

(***************************************************************************)
(* App.svelte: one session from the startMinigame message to the posts     *)
(* the host receives.  The component the App has created lives until       *)
(* active turns false; its fields and the setTimeout callbacks it has      *)
(* scheduled outlive it.                                                   *)
(***************************************************************************)
Components ==
    {"memory_sequence", "circuit_solver", "code_cracker", "safe_cracker", "thermite"}

\* the {#if active} block holds a minigame component
Mounted == active /\ component \in Components

\* The component destroyed without the cleanup its onMount returned
TeardownNoStop(t) == t

\* active = false takes the component out of the page: the cleanup its
\* onMount returned runs, if (timer) timer.stop()
Teardown(t) == IF Mounted THEN stop(t) ELSE t

\* The empty object {}
EmptyObject == <<>>

\* handleComplete(success, data), the Countdown being t when it is called
handleComplete(success, data, t) ==
    /\ sent' = Append(sent, [kind    |-> "minigameComplete",
                             body    |-> [success |-> success, data |-> data],
                             running |-> isRunning(t)])
    /\ active' = FALSE
    /\ minigameType' = ""
    /\ appConfig' = EmptyObject
    /\ SetTimer(Teardown(t))

\* handleExit() that posts the message and leaves the session open
handleExitStaysActive(t) ==
    /\ sent' = Append(sent, [kind    |-> "minigameExit",
                             body    |-> EmptyObject,
                             running |-> isRunning(t)])
    /\ UNCHANGED <<active, minigameType, appConfig>>
    /\ SetTimer(t)

\* handleExit(), the Countdown being t when it is called
handleExit(t) ==
    /\ sent' = Append(sent, [kind    |-> "minigameExit",
                             body    |-> EmptyObject,
                             running |-> isRunning(t)])
    /\ active' = FALSE
    /\ minigameType' = ""
    /\ appConfig' = EmptyObject
    /\ SetTimer(Teardown(t))

\* what the App's handlers and the components' exit() leave alone
exitFrame == <<gameState, config, timeLeft, timerLog, circuitVars, codeVars, scoreOut,
               safeVars, memoryVars, thermiteVars, component, calls, hostVars>>

\* The setTimeout callback of handleGameOver, whenever it comes due:
\* dispatch('complete', ...), which calls the App's on:complete handler.
\* The dispatcher of a component keeps its callbacks when the component is
\* destroyed.
Complete ==
    /\ pending # <<>>
    /\ LET detail == [success |-> Head(pending).success,
                      data    |-> CompletionDataOf(component)] IN
       /\ outbox' = Append(outbox, detail)
       /\ handleComplete(detail.success, detail.data, Timer)
    /\ pending' = Tail(pending)
    /\ rejected' = FALSE
    /\ UNCHANGED exitFrame

\* exit() of a component, from its Exit button:
\* if (timer) timer.stop(); dispatch('exit'), which calls handleExit
exit ==
    /\ Mounted
    /\ handleExit(stop(Timer))
    /\ rejected' = FALSE
    /\ UNCHANGED <<pending, outbox, exitFrame>>

\* the Exit button of the error message shown for an unknown type
ErrorExit ==
    /\ active
    /\ component \notin Components
    /\ handleExit(Timer)
    /\ rejected' = FALSE
    /\ UNCHANGED <<pending, outbox, exitFrame>>

\* handleKeydown(event) for the Escape key
handleKeydown ==
    /\ rejected' = ~active
    /\ IF active
       THEN handleExit(Timer)
       ELSE UNCHANGED <<sent, active, minigameType, appConfig, timerInterval, elapsed,
                        duration, leaked>>
    /\ UNCHANGED <<pending, outbox, exitFrame>>

\* The sessions explored under the App: one run of each generator
SampleSession ==
    /\ component = "circuit_solver" => sourcePosition = <<0, 0>> /\ grid0[<<1, 1>>].type = "straight"
    /\ component = "code_cracker" => \A k \in DOMAIN secretCode : secretCode[k] = Red
    /\ component = "safe_cracker" =>
          /\ config.difficulty = "hard"
          /\ successZones[1].start = 0 /\ successZones[1].end = 10
    /\ component = "memory_sequence" =>
          /\ config.difficulty = "easy"
          /\ sequence[1] = 0
    /\ component = "thermite" => config.difficulty = "easy"

\* The App after a startMinigame message with a type it has no component for
UnknownType ==
    /\ minigameType = "lockpick"
    /\ active = TRUE
    /\ component = "none"
    /\ sent = <<>>
    /\ calls = <<>>
    /\ gameState = "idle"
    /\ pending = <<>>
    /\ outbox = <<>>
    /\ rejected = FALSE
    /\ config = NoConfig
    /\ timerInterval = FALSE
    /\ ClockIdle /\ CircuitIdle /\ CodeIdle /\ SafeIdle /\ MemoryIdle /\ ThermiteIdle
    /\ appConfig = config
    /\ HostOpen

InitApp ==
    \/ (InitCircuit \/ InitCode \/ InitSafe \/ InitMemory \/ InitThermite) /\ SampleSession
    \/ UnknownType

\* The player's input reaches a component for as long as it is in the page;
\* the interval of its Countdown calls back for as long as it is set.
NextApp ==
    \/ Mounted /\ component = "circuit_solver" /\ Click
    \/ Mounted /\ component = "code_cracker" /\ (SelectPosition \/ SelectColor \/ SubmitGuess)
    \/ component \in {"circuit_solver", "code_cracker"} /\ TimerExpire
    \/ Mounted /\ component = "safe_cracker" /\ (StartDrag \/ Drag \/ EndDrag)
    \/ component = "safe_cracker" /\ TickSafe
    \/ Mounted /\ component = "memory_sequence" /\ TileClick
    \/ component = "memory_sequence" /\ TickMemory
    \/ Mounted /\ component = "thermite" /\ CellClick
    \/ component = "thermite" /\ TickThermite
    \/ Complete
    \/ exit
    \/ ErrorExit
    \/ handleKeydown

SpecApp == InitApp /\ [][NextApp]_vars

\* The interval of the component's Countdown calling back
AppTick ==
    \/ component \in {"circuit_solver", "code_cracker"} /\ TimerExpire
    \/ component = "safe_cracker" /\ TickSafe
    \/ component = "memory_sequence" /\ TickMemory
    \/ component = "thermite" /\ TickThermite

\* setInterval keeps calling back for as long as the interval is set, and a
\* setTimeout callback that is scheduled comes due.
SpecAppFair == SpecApp /\ WF_vars(AppTick) /\ WF_vars(Complete)

(***************************************************************************)
(* The host (the Lua client script) and the App over several sessions:     *)
(* callers ask the host for Safe Cracker sessions, the host's messages and *)
(* the App's posts are delivered one at a time, and the completions that   *)
(* the components of earlier sessions have scheduled still come due.       *)
(***************************************************************************)
\* calls of StartMinigame the host accepts
MaxSessions == 3

\* What the callers ask for: exports.StartMinigame('safe_cracker', 'hard',
\* duration, callback) with one of two durations
HostConfigs ==
    { [difficulty |-> "hard", duration |-> d, maxRotations |-> 3, zones |-> 3] :
        d \in {ConfigDuration, ConfigDuration + 1} }

\* How far the pointer turns between two events in these sessions
HostDeltas == {120}

\* StartMinigame(minigameType, config, cb); the callback of the k-th call
\* the host accepts is numbered k
StartMinigame(type, cfg) ==
    /\ minigameCallback < MaxSessions
    /\ rejected' = isAnyMinigameActive
    /\ IF isAnyMinigameActive
       THEN UNCHANGED <<isAnyMinigameActive, minigameCallback, inbox>>
       ELSE /\ isAnyMinigameActive' = TRUE
            /\ minigameCallback' = minigameCallback + 1
            /\ inbox' = Append(inbox, [action       |-> "startMinigame",
                                       minigameType |-> type,
                                       config       |-> cfg,
                                       session      |-> minigameCallback + 1])
    /\ UNCHANGED <<sharedVars, config, clockVars, circuitVars, codeVars, scoreOut,
                   safeVars, memoryVars, thermiteVars, active, component, sent, calls,
                   appConfig, appSession, stale, handled, results>>

\* RegisterNUICallback('minigameComplete', ...) and ('minigameExit', ...):
\* the host handles the next post of the App
NUICallback ==
    /\ handled < Len(sent)
    /\ LET post == sent[handled + 1] IN
       /\ handled' = handled + 1
       /\ isAnyMinigameActive' = FALSE
       /\ results' =
             IF minigameCallback = 0 THEN results
             ELSE Append(results,
                         IF post.kind = "minigameComplete"
                         THEN [callback |-> minigameCallback,
                               success  |-> post.body.success,
                               data     |-> post.body.data]
                         ELSE [callback |-> minigameCallback,
                               success  |-> FALSE,
                               data     |-> EmptyObject])
    /\ rejected' = FALSE
    /\ UNCHANGED <<sharedVars, config, clockVars, circuitVars, codeVars, scoreOut,
                   safeVars, memoryVars, thermiteVars, active, component, sent, calls,
                   appConfig, appSession, stale, minigameCallback, inbox>>

\* <SafeCracker {config} .../> created by the App: the initial values of
\* its fields and its onMount (one outcome of generateSuccessZones)
mountSafeCracker(cfg) ==
    /\ component' = "safe_cracker"
    /\ config' = cfg
    /\ successZones' = generateSuccessZones(cfg.zones, 0, <<0, 40, 80, 120, 160>>).successZones
    /\ currentRotation' = 0
    /\ rotationCount' = 0
    /\ foundZonesCount' = 0
    /\ isDragging' = FALSE
    /\ prevAngle' = 0
    /\ lastDelta' = 0
    /\ gameState' = "playing"
    /\ timeLeft' = cfg.duration
    /\ SetTimer(start(CountdownTimer(Timer, cfg.duration)))

\* The message listener of the App for the next startMinigame message.  A
\* component of the same type that is in the page stays and gets the new
\* config as its prop; otherwise a component is created, and what the last
\* one scheduled stays scheduled, with the data it will report.
onMessage ==
    /\ inbox # <<>>
    /\ LET message == Head(inbox) IN
       /\ inbox' = Tail(inbox)
       /\ active' = TRUE
       /\ minigameType' = message.minigameType
       /\ appConfig' = message.config
       /\ appSession' = message.session
       /\ IF Mounted /\ component = message.minigameType
          THEN /\ config' = message.config
               /\ UNCHANGED <<component, gameState, timerInterval, elapsed, duration,
                              leaked, timeLeft, safeVars, pending, stale>>
          ELSE /\ mountSafeCracker(message.config)
               /\ stale' = stale \o [k \in 1 .. Len(pending) |->
                                        [success |-> pending[k].success,
                                         data    |-> CompletionDataOf(component)]]
               /\ pending' = <<>>
    /\ rejected' = FALSE
    /\ UNCHANGED <<outbox, timerLog, circuitVars, codeVars, scoreOut, memoryVars,
                   thermiteVars, sent, calls, isAnyMinigameActive, minigameCallback,
                   handled, results>>

\* The setTimeout callback a component of an earlier session scheduled in
\* handleGameOver: its dispatcher calls the App's on:complete handler
StaleComplete ==
    /\ stale # <<>>
    /\ outbox' = Append(outbox, Head(stale))
    /\ handleComplete(Head(stale).success, Head(stale).data, Timer)
    /\ stale' = Tail(stale)
    /\ rejected' = FALSE
    /\ UNCHANGED <<gameState, pending, config, timeLeft, timerLog, circuitVars, codeVars,
                   scoreOut, safeVars, memoryVars, thermiteVars, component, calls,
                   appSession, isAnyMinigameActive, minigameCallback, inbox, handled,
                   results>>

\* The App and the host before the first call
InitHost ==
    /\ minigameType = ""
    /\ active = FALSE
    /\ component = "none"
    /\ appConfig = EmptyObject
    /\ config = NoConfig
    /\ gameState = "idle"
    /\ timerInterval = FALSE
    /\ pending = <<>>
    /\ outbox = <<>>
    /\ rejected = FALSE
    /\ sent = <<>>
    /\ calls = <<>>
    /\ appSession = 0
    /\ stale = <<>>
    /\ isAnyMinigameActive = FALSE
    /\ minigameCallback = 0
    /\ inbox = <<>>
    /\ handled = 0
    /\ results = <<>>
    /\ ClockIdle /\ CircuitIdle /\ CodeIdle /\ SafeIdle /\ MemoryIdle /\ ThermiteIdle

HostStart == \E cfg \in HostConfigs : StartMinigame("safe_cracker", cfg)
HostDrag  == \E delta \in HostDeltas : drag(delta)

\* Timeouts come due in the order they were scheduled: those of earlier
\* sessions before the one of the component in the page.
NextHost ==
    \/ HostStart
    \/ onMessage
    \/ NUICallback
    \/ Mounted /\ (StartDrag \/ HostDrag \/ EndDrag)
    \/ component = "safe_cracker" /\ TickSafe
    \/ stale = <<>> /\ Complete
    \/ StaleComplete
    \/ exit
    \/ handleKeydown

SpecHost == InitHost /\ [][NextHost]_vars

\* The delay handleGameOver gives its setTimeout, in milliseconds
PresentationDelay(type, success) ==
    CASE type = "circuit_solver"  -> 1500
      [] type = "memory_sequence" -> 1500
      [] type = "code_cracker"    -> 2000
      [] type = "safe_cracker"    -> 2000
      [] type = "thermite"        -> IF success THEN 1500 ELSE 2500

(***************************************************************************)
(* Sessions under the App: claims                                          *)
(***************************************************************************)
Terminal == gameState \in {"success", "failure"}

\* the puzzle state and the counters of the five minigames
PuzzleState ==
    <<grid, sourcePosition, destinationPosition, clickLog,
      currentAttempt, attempts, feedback, secretCode, currentGuess, selectedPosition,
      accepted,
      currentRotation, rotationCount, successZones, foundZonesCount,
      sequence, playerSequence, currentIndex,
      playerGrid, targetCells, selectedCount, incorrectSelections>>

\* C24: terminal states are final in all five minigames: once gameState is
\* success or failure it never changes again, handleGameOver runs at most
\* once per session, and every puzzle input received after that changes no
\* puzzle state or counter.
C24_TerminalFinal ==
    /\ [](Len(pending) + Len(outbox) <= 1)
    /\ [](pending # <<>> \/ outbox # <<>> => Terminal)
    /\ [][Terminal => /\ gameState' = gameState
                       /\ PuzzleState' = PuzzleState
                       /\ Len(pending') + Len(outbox') = Len(pending) + Len(outbox)]_vars
    /\ [][~Terminal /\ Len(pending') > Len(pending) => Terminal']_vars

\* an input has reached a component in a terminal state and changed nothing
C24_Witness ==
    /\ Mounted
    /\ Terminal
    /\ pending # <<>>
    /\ rejected

\* C25: the host receives exactly one outbound message per session, either
\* one completion or one exit, never both and never two of the same kind;
\* an exit requested during the presentation delay is not followed by a
\* completion.
C25_ExactlyOneOutcome ==
    /\ Len(sent) <= 1
    /\ ~active => Len(sent) = 1

\* the Countdown of an interactive phase has completed in this step
Expired ==
    /\ isRunning(Timer)
    /\ \/ /\ component \in {"safe_cracker", "memory_sequence", "thermite"}
          /\ gameState \in {"playing", "input", "solving"}
          /\ elapsed' # elapsed
          /\ timeLeft' = 0
       \/ /\ component \in {"circuit_solver", "code_cracker"}
          /\ gameState = "playing"
          /\ ~timerInterval'
          /\ active' = active
          /\ PuzzleState' = PuzzleState

\* C26: expiry of the Countdown during the interactive phase moves the game
\* to failure, never to success; the completion then sent has success =
\* false; no phase is restarted after it.
C26_TimeoutIsFailure ==
    /\ [][Expired => /\ gameState' = "failure"
                      /\ pending' = Append(pending, [success |-> FALSE])
                      /\ ~isRunning(Timer')]_vars
    /\ [](gameState = "failure" =>
            /\ \A k \in 1 .. Len(pending) : ~pending[k].success
            /\ \A k \in 1 .. Len(outbox) : ~outbox[k].success
            /\ \A k \in 1 .. Len(sent) :
                  sent[k].kind = "minigameComplete" => ~sent[k].body.success)
    /\ [][gameState = "failure" => gameState' = "failure" /\ ~timerInterval']_vars

\* a Memory Sequence whose input phase ran out of time has reported failure
C26_Witness ==
    /\ component = "memory_sequence"
    /\ gameState = "failure"
    /\ timeLeft = 0
    /\ playerSequence = <<>>
    /\ Len(sent) = 1
    /\ sent[1].kind = "minigameComplete"
    /\ ~sent[1].body.success

\* C27: for each of the five minigames the completion is emitted 1500 ms
\* after the game reaches success and between 2000 and 2500 ms after it
\* reaches failure, and never before the terminal state is reached.
C27_PresentationDelay ==
    \A k \in 1 .. Len(pending) :
        /\ Terminal
        /\ IF pending[k].success
           THEN PresentationDelay(component, TRUE) = 1500
           ELSE PresentationDelay(component, FALSE) \in 2000 .. 2500

\* C28: on every exit request, through a minigame's Exit button or through
\* the Escape key, the session's Countdown is stopped before the exit
\* message is sent to the host, and a repeated exit request has no further
\* effect.
C28_StoppedBeforeExitSent ==
    /\ \A k \in 1 .. Len(sent) : sent[k].kind = "minigameExit" => ~sent[k].running
    /\ Cardinality({k \in 1 .. Len(sent) : sent[k].kind = "minigameExit"}) <= 1

\* the session has ended: by success or failure, or by the App closing it
Ended == Terminal \/ ~active

\* C29: after a session has ended by any path (success, failure, Exit
\* button, Escape key, component teardown) no Countdown of that session is
\* running and none of its tick callbacks fires again, the Countdown the
\* Thermite creates for its solving phase included.
C29_NoLeakedCountdown ==
    /\ [](Ended => ~isRunning(Timer) /\ leaked = 0)
    /\ [][Ended => /\ ~timerInterval' /\ leaked' = 0
                    /\ elapsed' = elapsed /\ timeLeft' = timeLeft]_vars

\* a Thermite closed by the Escape key while the Countdown of its solving
\* phase was running
C29_Witness ==
    /\ component = "thermite"
    /\ gameState = "solving"
    /\ ~active
    /\ sent = <<[kind |-> "minigameExit", body |-> EmptyObject, running |-> TRUE]>>
    /\ ~isRunning(Timer)

\* C30: a start request whose type is none of the five identifiers creates
\* no puzzle and starts no Countdown; the only transition available is
\* exit, which sends the exit message with an empty payload and returns the
\* App to inactive; no completion message is ever sent for it.
C30_UnknownType ==
    /\ [](component \notin Components =>
            /\ gameState = "idle"
            /\ CircuitIdle /\ CodeIdle /\ SafeIdle /\ MemoryIdle /\ ThermiteIdle
            /\ ~isRunning(Timer) /\ leaked = 0 /\ elapsed = 0
            /\ pending = <<>> /\ outbox = <<>>
            /\ sent = IF active THEN <<>>
                      ELSE <<[kind |-> "minigameExit", body |-> <<>>, running |-> FALSE]>>)
    /\ [][component \notin Components /\ active /\ vars' # vars =>
            ~active' /\ Len(sent') = 1]_vars

\* the error message's session closed by an exit
C30_Witness ==
    /\ component \notin Components
    /\ ~active
    /\ minigameType = ""
    /\ Len(sent) = 1

(***************************************************************************)
(* Circuit Solver: the frame of a click                                    *)
(***************************************************************************)
\* the cell an accepted click of this step was made on, if there is one
ClickedCells == {c \in Cells : clickLog'[c] = clickLog[c] + 1}

\* what a piece is apart from its powered flag
Unpowered(piece) == [piece EXCEPT !.powered = FALSE]

\* C32: a click in state playing on a non-fixed piece changes only that
\* piece's rotation (by exactly +90 mod 360) and the powered flags; a click
\* on the source or destination, or in any state other than playing,
\* changes nothing; after any sequence of operations every piece's
\* connections equal the base connection set of its type rotated by its
\* rotation, and fixed is true exactly for source and destination.
C32_ClickFrame ==
    /\ [](minigameType = "circuit_solver" =>
            \A c \in Cells :
                /\ grid[c].connections =
                      rotateConnections(pieceDefs[grid[c].type], grid[c].rotation)
                /\ grid[c].fixed <=> grid[c].type \in {"source", "destination"}
                /\ grid[c].fixed <=> c \in {sourcePosition, destinationPosition})
    /\ [][minigameType = "circuit_solver" =>
            /\ \A c \in ClickedCells :
                  /\ gameState = "playing"
                  /\ ~grid[c].fixed
                  /\ grid'[c].rotation = (grid[c].rotation + 90) % 360
                  /\ grid'[c].type = grid[c].type
                  /\ grid'[c].fixed = grid[c].fixed
                  /\ \A d \in Cells \ {c} : Unpowered(grid'[d]) = Unpowered(grid[d])
                  /\ UNCHANGED <<sourcePosition, destinationPosition>>
            /\ ClickedCells = {} => UNCHANGED <<grid, sourcePosition, destinationPosition>>
            /\ rejected' => UNCHANGED <<grid, sourcePosition, destinationPosition,
                                        gameState, timerInterval, pending, clickLog>>]_vars

\* a piece clicked twice, and then a click on a fixed piece or after the end
C32_Witness ==
    /\ minigameType = "circuit_solver"
    /\ rejected
    /\ \E c \in Cells :
          /\ clickLog[c] = 2
          /\ grid[c].rotation = (grid0[c].rotation + 180) % 360

(***************************************************************************)
(* Safe Cracker: the dial                                                  *)
(***************************************************************************)
\* C33: for any two successive pointer angles in [0,360) the delta added to
\* the dial lies in [-180,180] (and is their signed difference), and after
\* any sequence of drag updates currentRotation lies in [0,360).
C33_DialArithmetic ==
    /\ [](minigameType = "safe_cracker" =>
            /\ currentRotation \in 0 .. 359
            /\ lastDelta \in -180 .. 180)
    /\ [][(minigameType = "safe_cracker" /\ currentRotation' # currentRotation) =>
            /\ (lastDelta' - (prevAngle' - prevAngle)) % 360 = 0
            /\ (currentRotation' - (currentRotation + lastDelta')) % 360 = 0]_vars

\* the pointer taken from 45 to 315 degrees across the boundary: a quarter
\* turn back, not three quarters forward
C33_Witness ==
    /\ minigameType = "safe_cracker"
    /\ prevAngle = 315
    /\ lastDelta = -90
    /\ currentRotation = 270


(***************************************************************************)
(* Safe Cracker: the counters                                              *)
(***************************************************************************)
\* The zones marked found
FoundZones == {k \in 1 .. Len(successZones) : successZones[k].found}

\* The zones a dial update marks: not found before it, found after it
NewlyFound == {k \in 1 .. Len(successZones) : ~successZones[k].found /\ successZones'[k].found}

\* C34: in every playing state of the Safe Cracker rotationCount =
\* foundZonesCount = the number of zones marked found, foundZonesCount <
\* zones and rotationCount < maxRotations; a dial update of a playing game
\* raises foundZonesCount by at most one, and when it does, the dial has
\* entered a zone that was not found before, the only zone it holds; a
\* zone that is found stays found and is not counted a second time.
C34_SafeCounters ==
    /\ [](minigameType = "safe_cracker" /\ gameState = "playing" =>
            /\ rotationCount = foundZonesCount
            /\ foundZonesCount = Cardinality(FoundZones)
            /\ foundZonesCount < config.zones
            /\ rotationCount < config.maxRotations)
    /\ [][minigameType = "safe_cracker" /\ gameState = "playing" =>
            /\ foundZonesCount' \in {foundZonesCount, foundZonesCount + 1}
            /\ \A k \in FoundZones : successZones'[k].found
            /\ foundZonesCount' = foundZonesCount + 1 =>
                  \E k \in 1 .. Len(successZones) :
                      /\ ~successZones[k].found
                      /\ currentRotation' >= successZones[k].start
                      /\ currentRotation' <= successZones[k].end
                      /\ \A j \in 1 .. Len(successZones) :
                            (/\ currentRotation' >= successZones[j].start
                             /\ currentRotation' <= successZones[j].end) => j = k
                      /\ gameState' = "playing" => NewlyFound = {k}
            /\ foundZonesCount' = foundZonesCount /\ gameState' = "playing" =>
                  NewlyFound = {}]_vars

\* The dial of a hard session resting at 48 degrees, inside the second zone
\* it has found
C34_Witness ==
    /\ minigameType = "safe_cracker"
    /\ gameState = "playing"
    /\ foundZonesCount = 2
    /\ rotationCount = 2
    /\ Cardinality(FoundZones) = 2
    /\ currentRotation = 48
    /\ successZones[2].found
    /\ successZones[2].start = 40


(***************************************************************************)
(* Safe Cracker: generation can finish                                     *)
(***************************************************************************)
\* A start position generateSuccessZones can draw for a zone of width
\* zoneSize and accept next to the zones accepted so far
FreeStart(zoneSize) ==
    \E startPosition \in 0 .. TOTAL_DEGREES - zoneSize :
        \A k \in 1 .. Len(successZones) :
            ~ZonesOverlap(startPosition, zoneSize, successZones[k])

\* C35: while the zones of a documented configuration (zones <= 5) are
\* being generated, whatever zones were accepted before, every width in
\* [10, 30] has a start position in [0, 360 - width] that overlaps none of
\* them; with start positions sampled fairly the generation ends and the
\* game starts.
C35_GenerationFinishes ==
    /\ [](minigameType = "safe_cracker" /\ gameState = "idle" /\ Len(successZones) < config.zones =>
            /\ config.zones <= 5
            /\ \A zoneSize \in MIN_ZONE_SIZE .. MAX_ZONE_SIZE : FreeStart(zoneSize))
    /\ (minigameType = "safe_cracker" /\ gameState = "idle") ~>
            (Len(successZones) = config.zones /\ gameState = "playing")

\* Four zones of width 30 packed so that the starts they block for a fifth
\* do not intersect, the fifth still to be placed
C35_Witness ==
    /\ minigameType = "safe_cracker"
    /\ gameState = "idle"
    /\ config.zones = 5
    /\ Len(successZones) = 4
    /\ {successZones[k].start : k \in 1 .. 4} = {30, 91, 152, 213}
    /\ \A k \in 1 .. 4 : successZones[k].end = successZones[k].start + 30
    /\ rejected


(***************************************************************************)
(* Circuit Solver: the carved path                                         *)
(***************************************************************************)
\* The cells strictly between two cells of one row or one column
Between(a, b) ==
    {c \in Cells :
        \/ a[1] = b[1] /\ c[1] = a[1] /\ c[2] > Min(a[2], b[2]) /\ c[2] < Max(a[2], b[2])
        \/ a[2] = b[2] /\ c[2] = a[2] /\ c[1] > Min(a[1], b[1]) /\ c[1] < Max(a[1], b[1])}

\* The grid of the session as placeSourceAndDestination left it
PlacedGrid ==
    [c \in Cells |-> IF c \in {sourcePosition, destinationPosition} THEN grid0[c] ELSE NullPiece]

\* C36: source and destination of a Circuit Solver session share a row or
\* a column; for every draw, createValidPath run from the source makes
\* gridSize - 1 passes of its loop, none by the fallback moves, does not
\* leave by the break and ends on the destination; it writes a straight
\* piece along the line in every cell strictly between the two and nothing
\* elsewhere, and those cells hold straight pieces throughout the session.
C36_PathReachesDestination ==
    minigameType = "circuit_solver" =>
        /\ sourcePosition[1] = destinationPosition[1] \/ sourcePosition[2] = destinationPosition[2]
        /\ Cardinality(Between(sourcePosition, destinationPosition)) = gridSize - 2
        /\ \A d \in PathDraws :
              LET walk == PathWalk(sourcePosition, destinationPosition, {sourcePosition}, d,
                                   [steps |-> 0, fallback |-> FALSE, break |-> FALSE,
                                    end |-> sourcePosition])
                  carved == createValidPath(PlacedGrid, sourcePosition, destinationPosition, d)
              IN  /\ walk.end = destinationPosition
                  /\ ~walk.fallback
                  /\ ~walk.break
                  /\ walk.steps = gridSize - 1
                  /\ \A c \in Cells :
                        carved[c] =
                            IF c \in Between(sourcePosition, destinationPosition)
                            THEN createPiece("straight",
                                     IF sourcePosition[1] = destinationPosition[1] THEN 90 ELSE 0)
                            ELSE PlacedGrid[c]
        /\ \A c \in Between(sourcePosition, destinationPosition) :
              grid0[c].type = "straight" /\ grid[c].type = "straight"

\* A vertical session in the middle column whose carved cell has been
\* turned by the player
C36_Witness ==
    /\ minigameType = "circuit_solver"
    /\ sourcePosition = <<0, 1>>
    /\ destinationPosition = <<gridSize - 1, 1>>
    /\ grid[<<1, 1>>].type = "straight"
    /\ clickLog[<<1, 1>>] = 1


(***************************************************************************)
(* Memory Sequence: the bookkeeping of playerSequence                      *)
(***************************************************************************)
\* seq is the first n entries of the sequence
CorrectPrefix(seq, n) == n \in 0 .. Len(sequence) /\ seq = SubSeq(sequence, 1, n)

\* seq is a correct proper prefix of the sequence followed by one wrong tile
PrefixThenWrong(seq) ==
    /\ Len(seq) \in 1 .. Len(sequence)
    /\ CorrectPrefix(SubSeq(seq, 1, Len(seq) - 1), Len(seq) - 1)
    /\ seq[Len(seq)] # sequence[Len(seq)]

\* C37: in every input state of the Memory Sequence playerSequence is the
\* first currentIndex entries of the sequence, a proper prefix; a click
\* that ends the game in failure leaves playerSequence equal to that prefix
\* followed by the one wrong tile; every success reported carries the whole
\* sequence as playerSequence, and every failure reported carries either a
\* correct proper prefix followed by one wrong tile (wrong click) or a
\* correct proper prefix alone (time ran out).
C37_PlayerSequenceBookkeeping ==
    /\ [](minigameType = "memory_sequence" /\ gameState = "input" =>
            /\ currentIndex < Len(sequence)
            /\ CorrectPrefix(playerSequence, currentIndex))
    /\ [][\A tile \in Tiles :
            Clicked(tile) /\ gameState' = "failure" =>
                /\ playerSequence' = Append(SubSeq(sequence, 1, currentIndex), tile)
                /\ PrefixThenWrong(playerSequence')
                /\ currentIndex' = currentIndex]_vars
    /\ [](minigameType = "memory_sequence" =>
            \A i \in 1 .. Len(outbox) :
                /\ outbox[i].data.sequenceLength = Len(sequence)
                /\ IF outbox[i].success
                   THEN outbox[i].data.playerSequence = sequence
                   ELSE \/ PrefixThenWrong(outbox[i].data.playerSequence)
                        \/ /\ CorrectPrefix(outbox[i].data.playerSequence, currentIndex)
                           /\ currentIndex < Len(sequence)
                           /\ outbox[i].data.timeRemaining = 0)

\* The failure reported after two correct tiles and a wrong one
C37_Witness ==
    /\ minigameType = "memory_sequence"
    /\ gameState = "failure"
    /\ currentIndex = 2
    /\ Len(outbox) = 1
    /\ ~outbox[1].success
    /\ Len(outbox[1].data.playerSequence) = 3
    /\ outbox[1].data.playerSequence[3] # sequence[3]
    /\ outbox[1].data.timeRemaining > 0


(***************************************************************************)
(* Thermite: the counters                                                  *)
(***************************************************************************)
\* The cells the player has selected
AllSelected == SelectedCells(TRUE) \cup SelectedCells(FALSE)

\* The cells of the pattern
PatternCells == {c \in ThermiteCells : grid[c]}

\* C38: in every solving state of the Thermite selectedCount (reported as
\* correctSelections) + incorrectSelections is the number of selected
\* cells, selectedCount is below the number of pattern cells and
\* incorrectSelections below 3; every completion reports correctSelections
\* <= totalTargets, incorrectSelections <= 3 and totalTargets equal to the
\* size of the pattern.
C38_ThermiteCounters ==
    /\ minigameType = "thermite" /\ gameState = "solving" =>
          /\ selectedCount + incorrectSelections = Cardinality(AllSelected)
          /\ selectedCount = Cardinality(SelectedCells(TRUE))
          /\ selectedCount < Cardinality(PatternCells)
          /\ incorrectSelections < 3
    /\ minigameType = "thermite" =>
          \A i \in 1 .. Len(outbox) :
              /\ outbox[i].data.correctSelections \in 0 .. outbox[i].data.totalTargets
              /\ outbox[i].data.incorrectSelections \in 0 .. 3
              /\ outbox[i].data.totalTargets = Cardinality(PatternCells)
              /\ outbox[i].data.totalTargets = Len(targetCells)

\* A failure by the third incorrect selection, reported with one correct one
C38_Witness ==
    /\ minigameType = "thermite"
    /\ gameState = "failure"
    /\ Len(outbox) = 1
    /\ ~outbox[1].success
    /\ outbox[1].data.incorrectSelections = 3
    /\ outbox[1].data.correctSelections = 1
    /\ outbox[1].data.timeRemaining > 0


(***************************************************************************)
(* App.svelte: every session ends                                          *)
(***************************************************************************)
\* The session was left by the Exit button or the Escape key
Exited == \E k \in 1 .. Len(sent) : sent[k].kind = "minigameExit"

\* A completion has been posted and the App has reset its state
CompletionSent ==
    /\ \E k \in 1 .. Len(sent) : sent[k].kind = "minigameComplete"
    /\ ~active
    /\ minigameType = ""
    /\ appConfig = EmptyObject

\* C39: for each of the five minigame types, with the interval of the
\* Countdown calling back and scheduled timeouts coming due, a session
\* whose component is mounted is exited or reaches success or failure, and
\* is exited or has its completion posted to the host, the App then being
\* inactive with an empty type and an empty configuration.
C39_SessionLiveness ==
    (active /\ component \in Components) ~> (Exited \/ (Terminal /\ CompletionSent))

\* A Memory Sequence session nobody touched: both phases timed out, the
\* failure was posted and the App reset
C39_Witness ==
    /\ component = "memory_sequence"
    /\ gameState = "failure"
    /\ playerSequence = <<>>
    /\ ~Exited
    /\ CompletionSent
    /\ Len(sent) = 1
    /\ ~sent[1].body.success


(***************************************************************************)
(* The host and the App: admission and isolation of sessions               *)
(***************************************************************************)
\* The App's listener handles a startMinigame message in this step
MessageArrives == inbox # <<>> /\ inbox' = Tail(inbox)

\* A completion scheduled by the component of an earlier session comes due
\* in this step
StaleComesDue == stale # <<>> /\ stale' = Tail(stale)

\* C31: a startMinigame message that arrives while a session is active
\* changes neither the minigame type nor the configuration of that
\* session, and for as long as a session stays active its type and its
\* configuration stay what it was started with.
C31_Admission ==
    /\ [][MessageArrives /\ active =>
            /\ minigameType' = minigameType
            /\ appConfig' = appConfig
            /\ config' = config
            /\ appSession' = appSession]_vars
    /\ [][active /\ active' =>
            /\ minigameType' = minigameType
            /\ appConfig' = appConfig]_vars

\* C40: a completion scheduled by an earlier session that comes due while
\* a later session is active neither closes that session nor posts a
\* result to the host.
C40_SessionIsolation ==
    [][StaleComesDue /\ active => active' /\ sent' = sent]_vars

====
